---- MODULE Spec2Model ----
(***************************************************************************)
(* TETFLIP liquid simulator: tetrahedral mesh, particle system, pressure   *)
(* solver and the per-step orchestration of TetFlipSimulator.              *)
(*                                                                         *)
(* Number representation.  JavaScript numbers are modelled as follows.     *)
(*   lengths      integers, one unit = 1/UnitsPerMetre metre               *)
(*   velocities   integers, one unit = 1/UnitsPerMetre metre per second    *)
(*   times        integers, one unit = 1 millisecond                       *)
(*   volumes and barycentric weights: exact rationals [n, d] with d > 0    *)
(*   divergence / pressure: integers, one unit = 1/FieldUnits              *)
(* A store into a Float32Array rounds; here it truncates toward zero to    *)
(* the unit of the array (operator Fix) and, in the pressure solver, whose *)
(* values grow over the iterations, rounds to the 24-bit significand of a  *)
(* Float32 (operator Float32; the identity below 2^24 units, which covers  *)
(* every position and velocity of the model).                              *)
(* Arrays are 0-based in the source; At(a, i) reads index i of a.          *)
(***************************************************************************)
EXTENDS Integers, Sequences, FiniteSets, TLC

\* ------------------------------------------------------------------ bounds
MaxRes == 2            \* largest nx, ny, nz passed to createRegularMesh
MaxQuery == 3          \* query points have coordinates in -1..MaxQuery
MaxWeight == 2         \* largest integer weight of a convex combination
NumParticles == 2      \* particle capacity and dam-break size (1000 in the source)
GridRes == 1           \* grid resolution of the simulator's mesh (8 in the source)
MaxSimTime == 20       \* steps are explored while simulationTime is below this (ms)
DamSimTime == 480      \* the same, for the dam-break run (ms)
MaxExtra == 1          \* particles beyond the capacity in an input array
MaxScan == 20          \* queries are explored on meshes of at most this many tetrahedra
TransferRes == 2       \* grid resolution of the mesh in the transfer runs (8 in the source)
SolverRes == 1         \* grid resolution of the mesh in the solver runs (8 in the source)
MaxPending == 2        \* the driver is explored while fewer callbacks than this are pending
DriverSimTime == 48    \* the driver steps while simulationTime is below this (ms)

\* --------------------------------------------------------------- constants
UnitsPerMetre == 2000
InitRes == 8
DefaultTimeStep == 16          \* 0.016 s
DefaultGravity == -19600       \* -9.8 m/s^2
DefaultViscosity == 1          \* 0.001, in thousandths
FieldUnits == 100000           \* units per 1 of divergence and pressure
MaxIterations == 50
Tolerance == 10                \* 1e-4 in field units
MinSpacing == 200              \* 0.1 m
GradScale == (UnitsPerMetre * UnitsPerMetre) \div FieldUnits
FlipRatio == 95                \* 0.95, in hundredths

\* values of three successive Math.random() calls, in thousandths
RandomSamples == { <<0, 0, 0>>, <<999, 500, 999>> }

\* slider values: time step (ms), gravity (length units / s^2), viscosity
TimeSteps == {16, 50}
Gravities == {-19600, -40000}
Viscosities == {0, 1, 100}

\* ---------------------------------------------------------------- numerics
\* An intermediate result that is used more than once is bound to a name by
\* ranging over the singleton set that holds it: The({ e(x) : x \in {v} }).
The(S) == CHOOSE r \in S : TRUE

Abs(x) == IF x < 0 THEN -x ELSE x

Max2(x, y) == IF x > y THEN x ELSE y

Sign(x) == IF x < 0 THEN -1 ELSE IF x > 0 THEN 1 ELSE 0

\* n / d truncated toward zero (d # 0)
Fix(n, d) ==
    The({ Sign(x) * Sign(y) * (Abs(x) \div Abs(y)) : x \in {n}, y \in {d} })

\* a * b / c truncated toward zero, computed without forming a * b (c > 0)
MulDiv(a, b, c) ==
    The({ (x \div c) * y * Sign(a) + Fix((x % c) * y * Sign(a), c) :
          x \in {Abs(a)}, y \in {b} })

\* integers of magnitude below 2^24 are Float32 values
F32Exact == 16777216

RECURSIVE Ulp(_)
\* the spacing of the Float32 values around the magnitude a
Ulp(a) == IF a < F32Exact THEN 1 ELSE 2 * Ulp(a \div 2)

\* the Float32 nearest to the integer x, ties to the even significand
Float32(x) ==
    The({ The({ IF u = 1 THEN y
                ELSE The({ Sign(y) * u *
                             (IF 2 * r < u THEN q
                              ELSE IF 2 * r > u THEN q + 1
                              ELSE q + (q % 2)) :
                           q \in {Abs(y) \div u}, r \in {Abs(y) % u} }) :
                u \in {Ulp(Abs(y))} }) :
          y \in {x} })

At(a, i) == a[i + 1]

\* the array a as an explicit tuple (same value, evaluated once)
Arr(a) == SubSeq(a, 1, Len(a))

RECURSIVE Gcd(_, _)
Gcd(a, b) == IF b = 0 THEN a ELSE Gcd(b, a % b)

\* the rational n/d in lowest terms with positive denominator (d # 0)
Rat(n, d) ==
    The({ LET g == Gcd(Abs(x), Abs(y))
          IN  [n |-> Sign(y) * (x \div g), d |-> Abs(y) \div g] :
          x \in {n}, y \in {d} })

RInt(k) == [n |-> k, d |-> 1]

RAbs(a) == The({ [n |-> Abs(x.n), d |-> x.d] : x \in {a} })

RLess(a, b) == \E x \in {a}, y \in {b} : x.n * y.d < y.n * x.d

RGeqZero(a) == a.n >= 0

RDiv(a, b) == The({ Rat(x.n * y.d, x.d * y.n) : x \in {a}, y \in {b} })

RAdd(a, b) ==
    The({ Rat(x.n * y.d + y.n * x.d, x.d * y.d) : x \in {a}, y \in {b} })

\* 1e-10 cubic metres in cubic length units: 1e-10 * UnitsPerMetre^3 = 4/5
VolumeEps == [n |-> 4, d |-> 5]

Quarter == [n |-> 1, d |-> 4]

\* ------------------------------------------------------------------- state
VARIABLES
    domainMin, domainMax,        \* TetrahedralMesh.domainMin / domainMax
    nodes,                       \* TetrahedralMesh.nodes (flat x,y,z)
    nodeVelocities,              \* TetrahedralMesh.nodeVelocities
    tetrahedra,                  \* TetrahedralMesh.tetrahedra (flat n0..n3)
    nodeCount, tetCount,
    maxParticles, count,         \* ParticleSystem.maxParticles / count
    positions, velocities,       \* ParticleSystem buffers (flat x,y,z)
    consoleLog,                  \* console.warn messages of the last call
    timeStep, gravity, viscosity,\* TetFlipSimulator parameters
    simulationTime,
    solver,                      \* locals of a PressureSolver.solve() in progress
    app,                         \* App fields and the animation-frame queue
    lastOp                       \* the last call made and what it returned

meshVars == <<domainMin, domainMax, nodes, nodeVelocities, tetrahedra,
              nodeCount, tetCount>>

particleVars == <<maxParticles, count, positions, velocities, consoleLog>>

paramVars == <<timeStep, gravity, viscosity, simulationTime>>

driverVars == <<solver, app>>

\* no solve() in progress.  During a solve the record holds the locals of
\* conjugateGradient: rhs, pressure, pressureOld, the number of loop bodies
\* run (iter), maxDiff of the last body, and done once the loop is left.
SolverIdle ==
    [active |-> FALSE, rhs |-> <<>>, pressure |-> <<>>, pressureOld |-> <<>>,
     iterations |-> 0, maxDiff |-> 0, done |-> FALSE]

\* the App after its constructor and init().  scheduled: callbacks handed to
\* requestAnimationFrame for the next frame; running: callbacks of the frame
\* being processed that have not run yet; resuming: the continuation of
\* reset() waiting in the microtask queue ("none", or the value of
\* wasRunning); stepsInFrame: simulator.step() calls made by the callbacks
\* of the current frame.  lastFrameTime, frameCount and fps only feed the
\* statistics display and are left out.
AppNew ==
    [isRunning |-> FALSE, scheduled |-> 0, running |-> 0,
     resuming |-> "none", stepsInFrame |-> 0]

vars == <<domainMin, domainMax, nodes, nodeVelocities, tetrahedra,
          nodeCount, tetCount, maxParticles, count, positions, velocities,
          consoleLog, timeStep, gravity, viscosity, simulationTime, solver,
          app, lastOp>>

\* ============================================================ mesh.js
\* getNodeIndex(i, j, k) of createRegularMesh
getNodeIndex(nx, ny, i, j, k) == i + j * (nx + 1) + k * (nx + 1) * (ny + 1)

\* the value of 0 * Infinity and of 0 / 0
NaN == "NaN"

\* nodes pushed by the first loop nest of createRegularMesh.  With zero cells
\* on an axis the spacing there is (max - min) / 0, Infinity or NaN, and the
\* coordinate min + 0 * spacing of the only layer of nodes is NaN.
RegularNodes(dmin, dmax, nx, ny, nz) ==
    [f \in 1..(3 * (nx + 1) * (ny + 1) * (nz + 1)) |->
        LET n == (f - 1) \div 3
            c == (f - 1) % 3
            i == n % (nx + 1)
            j == (n \div (nx + 1)) % (ny + 1)
            k == n \div ((nx + 1) * (ny + 1))
        IN  IF c = 0
            THEN IF nx = 0 THEN NaN
                 ELSE Fix(dmin[1] * nx + i * (dmax[1] - dmin[1]), nx)
            ELSE IF c = 1
            THEN IF ny = 0 THEN NaN
                 ELSE Fix(dmin[2] * ny + j * (dmax[2] - dmin[2]), ny)
            ELSE IF nz = 0 THEN NaN
                 ELSE Fix(dmin[3] * nz + k * (dmax[3] - dmin[3]), nz)]

\* variant: the central tetrahedron of the cell is replaced by a second copy
\* of the first corner tetrahedron
CellTetrahedraNoCentre(nx, ny, i, j, k) ==
    LET n000 == getNodeIndex(nx, ny, i, j, k)
        n100 == getNodeIndex(nx, ny, i + 1, j, k)
        n010 == getNodeIndex(nx, ny, i, j + 1, k)
        n110 == getNodeIndex(nx, ny, i + 1, j + 1, k)
        n001 == getNodeIndex(nx, ny, i, j, k + 1)
        n101 == getNodeIndex(nx, ny, i + 1, j, k + 1)
        n011 == getNodeIndex(nx, ny, i, j + 1, k + 1)
        n111 == getNodeIndex(nx, ny, i + 1, j + 1, k + 1)
    IN  <<n000, n100, n110, n101,
          n000, n110, n010, n011,
          n000, n101, n001, n011,
          n110, n101, n111, n011,
          n000, n100, n110, n101>>

\* the five tetrahedra pushed for grid cell (i, j, k)
CellTetrahedra(nx, ny, i, j, k) ==
    LET n000 == getNodeIndex(nx, ny, i, j, k)
        n100 == getNodeIndex(nx, ny, i + 1, j, k)
        n010 == getNodeIndex(nx, ny, i, j + 1, k)
        n110 == getNodeIndex(nx, ny, i + 1, j + 1, k)
        n001 == getNodeIndex(nx, ny, i, j, k + 1)
        n101 == getNodeIndex(nx, ny, i + 1, j, k + 1)
        n011 == getNodeIndex(nx, ny, i, j + 1, k + 1)
        n111 == getNodeIndex(nx, ny, i + 1, j + 1, k + 1)
    IN  <<n000, n100, n110, n101,
          n000, n110, n010, n011,
          n000, n101, n001, n011,
          n110, n101, n111, n011,
          n000, n110, n101, n011>>

\* variant: only four tetrahedra per cell are pushed (the central one is lost)
RegularTetrahedraFour(nx, ny, nz) ==
    [f \in 1..(16 * nx * ny * nz) |->
        LET cell == (f - 1) \div 16
            i == cell % nx
            j == (cell \div nx) % ny
            k == cell \div (nx * ny)
        IN  CellTetrahedra(nx, ny, i, j, k)[((f - 1) % 16) + 1]]

\* tetrahedra pushed by the second loop nest of createRegularMesh
RegularTetrahedra(nx, ny, nz) ==
    [f \in 1..(20 * nx * ny * nz) |->
        LET cell == (f - 1) \div 20
            i == cell % nx
            j == (cell \div nx) % ny
            k == cell \div (nx * ny)
        IN  CellTetrahedra(nx, ny, i, j, k)[((f - 1) % 20) + 1]]

createRegularMesh(nx, ny, nz) ==
    LET newNodes == RegularNodes(domainMin, domainMax, nx, ny, nz)
        newTets == RegularTetrahedra(nx, ny, nz)
    IN  /\ nodes' = newNodes
        /\ nodeVelocities' = [f \in 1..Len(newNodes) |-> 0]
        /\ tetrahedra' = newTets
        /\ nodeCount' = Len(newNodes) \div 3
        /\ tetCount' = Len(newTets) \div 4

\* TetrahedralMesh.getTetrahedraCount(), which the simulator's getter of the
\* same name passes on to the statistics panel
getTetrahedraCount == tetCount

getTetrahedron(tets, index) ==
    LET i == index * 4
    IN  <<At(tets, i), At(tets, i + 1), At(tets, i + 2), At(tets, i + 3)>>

NodePos(nds, n) == <<At(nds, n * 3), At(nds, n * 3 + 1), At(nds, n * 3 + 2)>>

\* signed volume: scalar triple product / 6
tetrahedronVolume(p0, p1, p2, p3) ==
    LET v1 == <<p1[1] - p0[1], p1[2] - p0[2], p1[3] - p0[3]>>
        v2 == <<p2[1] - p0[1], p2[2] - p0[2], p2[3] - p0[3]>>
        v3 == <<p3[1] - p0[1], p3[2] - p0[2], p3[3] - p0[3]>>
        cross == <<v2[2] * v3[3] - v2[3] * v3[2],
                   v2[3] * v3[1] - v2[1] * v3[3],
                   v2[1] * v3[2] - v2[2] * v3[1]>>
    IN  Rat(v1[1] * cross[1] + v1[2] * cross[2] + v1[3] * cross[3], 6)

\* the positions of the four nodes of tetrahedron tetIndex
TetPoints(nds, tets, tetIndex) ==
    Arr([i \in 1..4 |-> NodePos(nds, At(tets, tetIndex * 4 + i - 1))])

\* variant: the sub-volumes are divided by the unsigned volume
BarycentricAbs(p, q, volume) ==
    IF RLess(RAbs(volume), VolumeEps)
    THEN <<Quarter, Quarter, Quarter, Quarter>>
    ELSE <<RDiv(tetrahedronVolume(p, q[2], q[3], q[4]), RAbs(volume)),
           RDiv(tetrahedronVolume(q[1], p, q[3], q[4]), RAbs(volume)),
           RDiv(tetrahedronVolume(q[1], q[2], p, q[4]), RAbs(volume)),
           RDiv(tetrahedronVolume(q[1], q[2], q[3], p), RAbs(volume))>>

\* variant: the third sub-volume substitutes p for the wrong vertex
BarycentricSwap(p, q, volume) ==
    IF RLess(RAbs(volume), VolumeEps)
    THEN <<Quarter, Quarter, Quarter, Quarter>>
    ELSE <<RDiv(tetrahedronVolume(p, q[2], q[3], q[4]), volume),
           RDiv(tetrahedronVolume(q[1], p, q[3], q[4]), volume),
           RDiv(tetrahedronVolume(q[1], q[2], q[4], p), volume),
           RDiv(tetrahedronVolume(q[1], q[2], q[3], p), volume)>>

\* the body of computeBarycentricCoordinates from the degeneracy test on:
\* p the query point, q the four node positions, volume their signed volume
Barycentric(p, q, volume) ==
    IF RLess(RAbs(volume), VolumeEps)
    THEN <<Quarter, Quarter, Quarter, Quarter>>
    ELSE <<RDiv(tetrahedronVolume(p, q[2], q[3], q[4]), volume),
           RDiv(tetrahedronVolume(q[1], p, q[3], q[4]), volume),
           RDiv(tetrahedronVolume(q[1], q[2], p, q[4]), volume),
           RDiv(tetrahedronVolume(q[1], q[2], q[3], p), volume)>>

computeBarycentricCoordinates(nds, tets, tetIndex, x, y, z) ==
    The({ The({ Barycentric(p, q, volume) :
                volume \in {tetrahedronVolume(q[1], q[2], q[3], q[4])} }) :
          p \in {<<x, y, z>>}, q \in {TetPoints(nds, tets, tetIndex)} })

RECURSIVE ScanTetrahedra(_, _, _, _, _, _, _)
\* the loop "for t .. < tetCount" of findContainingTetrahedron over the
\* tetrahedra t..tc-1: the first one that accepts the point, or -1.  The
\* range is scanned as its lower half followed by its upper half.
ScanTetrahedra(nds, tets, tc, t, x, y, z) ==
    IF t >= tc THEN -1
    ELSE IF t + 1 = tc
    THEN IF \E bary \in {computeBarycentricCoordinates(nds, tets, t, x, y, z)} :
               /\ RGeqZero(bary[1]) /\ RGeqZero(bary[2])
               /\ RGeqZero(bary[3]) /\ RGeqZero(bary[4])
         THEN t
         ELSE -1
    ELSE The({ IF r >= 0 THEN r
               ELSE ScanTetrahedra(nds, tets, tc, (t + tc) \div 2, x, y, z) :
               r \in {ScanTetrahedra(nds, tets, (t + tc) \div 2, t, x, y, z)} })

RECURSIVE ScanTetrahedraDown(_, _, _, _, _, _)
ScanTetrahedraDown(nds, tets, t, x, y, z) ==
    IF t < 0 THEN -1
    ELSE IF \E bary \in {computeBarycentricCoordinates(nds, tets, t, x, y, z)} :
               /\ RGeqZero(bary[1]) /\ RGeqZero(bary[2])
               /\ RGeqZero(bary[3]) /\ RGeqZero(bary[4])
         THEN t
         ELSE ScanTetrahedraDown(nds, tets, t - 1, x, y, z)

\* variant: the scan runs from the last tetrahedron down to the first
findContainingTetrahedronDown(nds, tets, tc, x, y, z) ==
    ScanTetrahedraDown(nds, tets, tc - 1, x, y, z)

findContainingTetrahedron(nds, tets, tc, x, y, z) ==
    ScanTetrahedra(nds, tets, tc, 0, x, y, z)

\* ====================================================== ParticleSystem
\* A particle system is handled as a record ps of its mutable fields
\* [positions, velocities, count, log, error]; error is set when a call
\* threw; maxParticles is passed as cap.

\* TypedArray.prototype.set: copy src over the front of buf
ArraySet(buf, src) ==
    Arr([f \in 1..Len(buf) |-> IF f <= Len(src) THEN src[f] ELSE buf[f]])

\* TypedArray.prototype.set throws a RangeError when src is longer than buf
SetThrows(buf, src) == Len(src) > Len(buf)

\* variant: the slice keeps maxParticles entries instead of maxParticles * 3
setPositionsShort(ps, cap, arr) ==
    LET over == Len(arr) > cap * 3
        kept == IF over THEN SubSeq(arr, 1, cap) ELSE arr
        log == IF over THEN Append(ps.log, "Too many particles, truncating")
               ELSE ps.log
    IN  IF SetThrows(ps.positions, kept)
        THEN [ps EXCEPT !.log = log, !.error = TRUE]
        ELSE [ps EXCEPT !.positions = ArraySet(ps.positions, kept),
                        !.count = Rat(Len(kept), 3),
                        !.log = log]

\* variant: the count is taken from the input before it is truncated
setPositionsLate(ps, cap, arr) ==
    LET over == Len(arr) > cap * 3
        kept == IF over THEN SubSeq(arr, 1, cap * 3) ELSE arr
        log == IF over THEN Append(ps.log, "Too many particles, truncating")
               ELSE ps.log
    IN  IF SetThrows(ps.positions, kept)
        THEN [ps EXCEPT !.log = log, !.error = TRUE]
        ELSE [ps EXCEPT !.positions = ArraySet(ps.positions, kept),
                        !.count = Rat(Len(arr), 3),
                        !.log = log]

\* count is positions.length / 3, a fraction when the length is no
\* multiple of 3
setPositions(ps, cap, arr) ==
    LET over == Len(arr) > cap * 3
        kept == IF over THEN SubSeq(arr, 1, cap * 3) ELSE arr
        log == IF over THEN Append(ps.log, "Too many particles, truncating")
               ELSE ps.log
    IN  IF SetThrows(ps.positions, kept)
        THEN [ps EXCEPT !.log = log, !.error = TRUE]
        ELSE [ps EXCEPT !.positions = ArraySet(ps.positions, kept),
                        !.count = Rat(Len(kept), 3),
                        !.log = log]

setVelocities(ps, cap, arr) ==
    LET over == Len(arr) > cap * 3
        kept == IF over THEN SubSeq(arr, 1, cap * 3) ELSE arr
        log == IF over THEN Append(ps.log, "Too many velocities, truncating")
               ELSE ps.log
    IN  IF SetThrows(ps.velocities, kept)
        THEN [ps EXCEPT !.log = log, !.error = TRUE]
        ELSE [ps EXCEPT !.velocities = ArraySet(ps.velocities, kept),
                        !.log = log]

\* ParticleSystem.initialize(): zero-filled buffers of maxParticles * 3
NewParticles(cap) ==
    [positions |-> [f \in 1..(cap * 3) |-> 0],
     velocities |-> [f \in 1..(cap * 3) |-> 0],
     count |-> RInt(0),
     log |-> <<>>,
     error |-> FALSE]

\* the particle system of the current state with an empty message log
Particles ==
    [positions |-> positions, velocities |-> velocities, count |-> count,
     log |-> <<>>, error |-> FALSE]

StoreParticles(ps) ==
    /\ positions' = ps.positions
    /\ velocities' = ps.velocities
    /\ count' = ps.count
    /\ consoleLog' = ps.log
    /\ UNCHANGED maxParticles

\* ====================================================== PressureSolver
\* the nodes sharing a tetrahedron with nodeIndex
getNeighbors(tets, tc, nodeIndex) ==
    UNION { { At(tets, 4 * t + c) : c \in 0..3 } :
              t \in { u \in 0..(tc - 1) :
                        \E c \in 0..3 : At(tets, 4 * u + c) = nodeIndex } }
      \ {nodeIndex}

RECURSIVE SeqSum(_, _, _)
\* a[lo] + .. + a[hi], evaluated by halving the range
SeqSum(a, lo, hi) ==
    IF lo > hi THEN 0
    ELSE IF lo = hi THEN a[lo]
    ELSE SeqSum(a, lo, (lo + hi) \div 2) + SeqSum(a, ((lo + hi) \div 2) + 1, hi)

RECURSIVE SeqMax(_, _, _)
\* the largest of 0, a[lo], .., a[hi]
SeqMax(a, lo, hi) ==
    IF lo > hi THEN 0
    ELSE IF lo = hi THEN Max2(0, a[lo])
    ELSE Max2(SeqMax(a, lo, (lo + hi) \div 2),
              SeqMax(a, ((lo + hi) \div 2) + 1, hi))

\* the sum of f[n + 1] over the node indices n listed in nbr
SumOver(f, nbr) ==
    The({ SeqSum(a, 1, Len(a)) :
          a \in {Arr([k \in 1..Len(nbr) |-> f[nbr[k] + 1]])} })

\* Math.max over i of Math.abs(a[i] - b[i]), starting from 0
MaxAbsDiff(a, b, i) ==
    The({ SeqMax(d, i, Len(d)) :
          d \in {Arr([k \in 1..Len(a) |-> Abs(a[k] - b[k])])} })

\* dx, dy, dz of approximateDivergence: Math.abs(..) || 0.1 takes 0.1 when
\* the absolute difference is 0 (falsy) and the difference otherwise
Spacing(pos4) ==
    The({ <<IF ax = 0 THEN MinSpacing ELSE ax,
            IF ay = 0 THEN MinSpacing ELSE ay,
            IF az = 0 THEN MinSpacing ELSE az>> :
          ax \in {Abs(pos4[2][1] - pos4[1][1])},
          ay \in {Abs(pos4[3][2] - pos4[1][2])},
          az \in {Abs(pos4[4][3] - pos4[1][3])} })

\* positions, vels: the four node positions / velocities of one tetrahedron
approximateDivergence(pos4, vel4) ==
    The({ Fix((vel4[2][1] - vel4[1][1]) * FieldUnits, d[1])
            + Fix((vel4[3][2] - vel4[1][2]) * FieldUnits, d[2])
            + Fix((vel4[4][3] - vel4[1][3]) * FieldUnits, d[3]) :
          d \in {Spacing(pos4)} })

\* (1000 * hi + lo) / cnt truncated toward zero, for lo >= 0 and cnt > 0,
\* computed without forming the total
MeanOf(hi, lo, cnt) ==
    The({ The({ IF fl < 0 /\ (rest % cnt) # 0 THEN fl + 1 ELSE fl :
                fl \in {1000 * (hi \div cnt) + (rest \div cnt)} }) :
          rest \in {1000 * (hi % cnt) + lo} })

\* avgDiv of tetrahedron t
TetDivergence(nds, nv, tets, t) ==
    The({ approximateDivergence([i \in 1..4 |-> NodePos(nds, tet[i])],
                                [i \in 1..4 |-> NodePos(nv, tet[i])]) :
          tet \in {getTetrahedron(tets, t)} })

\* a[1] + .. + a[Len(a)]
SumArr(a) == The({ SeqSum(x, 1, Len(x)) : x \in {a} })

\* divergence[n] after the averaging loop; hits[u] is the number of
\* times tetrahedron u - 1 lists node n, so the sum of hits is counts[n]
NodeDivergence(tets, tc, avgDiv, n) ==
    The({ The({ IF cnt > 0
                THEN Float32(MeanOf(
                         SumArr(Arr([u \in 1..tc |->
                                       hits[u] * (avgDiv[u] \div 1000)])),
                         SumArr(Arr([u \in 1..tc |->
                                       hits[u] * (avgDiv[u] % 1000)])),
                         cnt))
                ELSE 0 :
                cnt \in {SumArr(hits)} }) :
          hits \in {Arr([u \in 1..tc |->
                           Cardinality({ c \in 0..3 :
                               At(tets, 4 * (u - 1) + c) = n })])} })

computeDivergence(nds, nv, tets, tc, nc) ==
    The({ Arr([i \in 1..nc |-> NodeDivergence(tets, tc, avgDiv, i - 1)]) :
          avgDiv \in {Arr([u \in 1..tc |->
                             TetDivergence(nds, nv, tets, u - 1)])} })

\* getNeighbors(mesh, i) for every node i (entry i + 1), each as the array
\* of its members; the tetrahedron array does not change during a solve, so
\* every call returns these
NeighborTable(tets, tc, nc) ==
    Arr([i \in 1..nc |->
        The({ Arr([k \in 1..Cardinality(S) |->
                     CHOOSE n \in S : Cardinality({ m \in S : m < n }) = k - 1]) :
              S \in {getNeighbors(tets, tc, i - 1)} })])

RECURSIVE InPlaceSweep(_, _, _, _, _)
\* variant: nodes 0..i-1 are updated one after the other in the array p,
\* each from the values p holds at that moment (no pressureOld copy)
InPlaceSweep(nbrs, nc, rhs, p, i) ==
    IF i = 0 THEN p
    ELSE The({ IF Len(nbrs[i]) > 0
               THEN [q EXCEPT ![i] = Float32(Fix(SumOver(q, nbrs[i]) - rhs[i],
                                                 Len(nbrs[i])))]
               ELSE q :
               q \in {InPlaceSweep(nbrs, nc, rhs, p, i - 1)} })

JacobiSweepInPlace(nbrs, nc, rhs, pressureOld) ==
    InPlaceSweep(nbrs, nc, rhs, pressureOld, nc)

\* variant: the sweep over-relaxes, new = 2 * (Jacobi value) - old
JacobiSweepOverRelaxed(nbrs, nc, rhs, pressureOld) ==
    Arr([i \in 1..nc |->
        IF Len(nbrs[i]) > 0
        THEN Float32(2 * Fix(SumOver(pressureOld, nbrs[i]) - rhs[i],
                             Len(nbrs[i])) - pressureOld[i])
        ELSE pressureOld[i]])

\* one sweep "for i in 0..nodeCount-1" over pressureOld
JacobiSweep(nbrs, nc, rhs, pressureOld) ==
    Arr([i \in 1..nc |->
        IF Len(nbrs[i]) > 0
        THEN Float32(Fix(SumOver(pressureOld, nbrs[i]) - rhs[i], Len(nbrs[i])))
        ELSE pressureOld[i]])

\* variant: the loop body without the convergence test and its break
JacobiStepNoBreak(nbrs, nc, rhs, st) ==
    IF st.done \/ st.iterations >= MaxIterations THEN st
    ELSE [pressure |-> JacobiSweep(nbrs, nc, rhs, st.pressure),
          iterations |-> st.iterations + 1,
          done |-> FALSE]

\* one pass of the body of the loop "for iter < maxIterations" of
\* conjugateGradient; st = [pressure, iterations, done], done after the break
JacobiStep(nbrs, nc, rhs, st) ==
    IF st.done \/ st.iterations >= MaxIterations THEN st
    ELSE The({ [pressure |-> new,
                iterations |-> st.iterations + 1,
                done |-> MaxAbsDiff(new, st.pressure, 1) < Tolerance] :
               new \in {JacobiSweep(nbrs, nc, rhs, st.pressure)} })

RECURSIVE JacobiRun(_, _, _, _, _)
\* n successive passes of the loop, evaluated by halving n
JacobiRun(nbrs, nc, rhs, st, n) ==
    IF n = 0 THEN st
    ELSE IF n = 1 THEN JacobiStep(nbrs, nc, rhs, st)
    ELSE The({ JacobiRun(nbrs, nc, rhs, mid, n - (n \div 2)) :
               mid \in {JacobiRun(nbrs, nc, rhs, st, n \div 2)} })

\* rhs of conjugateGradient after "rhs[i] *= dt" (dt in ms)
ScaledRhs(divergence, nc, dt) ==
    Arr([i \in 1..nc |-> Float32(MulDiv(divergence[i], dt, 1000))])

conjugateGradient(tets, tc, nc, divergence, dt) ==
    The({ JacobiRun(nbrs, nc, rhs,
                    [pressure |-> Arr([i \in 1..nc |-> 0]),
                     iterations |-> 0, done |-> FALSE],
                    MaxIterations) :
          nbrs \in {NeighborTable(tets, tc, nc)},
          rhs \in {ScaledRhs(divergence, nc, dt)} })

\* the c-th component of the gradient accumulated at node j - 1 over its
\* valid neighbours
GradTerm(nds, nc, pressure, j, pi, dist2, valid, c) ==
    SumArr(Arr([k \in 1..nc |->
                  IF k \in valid
                  THEN MulDiv(pressure[k] - pressure[j],
                              (NodePos(nds, k - 1)[c] - pi[c]) * GradScale,
                              dist2[k])
                  ELSE 0]))

\* per node j - 1 (nbr: its neighbours): the accumulated gradient and the
\* number of neighbours with dist > 1e-10 (positions are whole length units)
NodeGradient(nds, nc, pressure, nbr, j) ==
    The({ The({ The({
        [g |-> <<GradTerm(nds, nc, pressure, j, pi, dist2, valid, 1),
                 GradTerm(nds, nc, pressure, j, pi, dist2, valid, 2),
                 GradTerm(nds, nc, pressure, j, pi, dist2, valid, 3)>>,
         validNeighbors |-> Cardinality(valid)] :
        valid \in {{ k \in 1..nc : (k - 1) \in nbr /\ dist2[k] > 0 }} }) :
        dist2 \in {Arr([k \in 1..nc |->
                          The({ (pn[1] - pi[1]) * (pn[1] - pi[1])
                                  + (pn[2] - pi[2]) * (pn[2] - pi[2])
                                  + (pn[3] - pi[3]) * (pn[3] - pi[3]) :
                                pn \in {NodePos(nds, k - 1)} })])} }) :
        pi \in {NodePos(nds, j - 1)} })

solverApplyPressureGradient(nds, tets, tc, nc, pressure, vel, dt) ==
    The({ Arr([f \in 1..Len(vel) |->
                 The({ IF r.validNeighbors = 0 THEN vel[f]
                       ELSE Fix(vel[f] * 1000
                                  - dt * Fix(r.g[((f - 1) % 3) + 1],
                                             r.validNeighbors),
                                1000) :
                       r \in {grad[((f - 1) \div 3) + 1]} })]) :
          grad \in {Arr([j \in 1..nc |->
                           NodeGradient(nds, nc, pressure,
                                        getNeighbors(tets, tc, j - 1), j)])} })

\* PressureSolver.solve: the node velocities handed to setNodeVelocities
solve(nds, nv, tets, tc, nc, dt) ==
    The({ solverApplyPressureGradient(nds, tets, tc, nc, cg.pressure, nv, dt) :
          cg \in { The({ conjugateGradient(tets, tc, nc, divergence, dt) :
                         divergence \in
                             {computeDivergence(nds, nv, tets, tc, nc)} }) } })

\* ==================================================== TetFlipSimulator
\* a[idx] += w * v on a Float32Array, w a rational weight
AddScaled(a, idx, w, v) ==
    [a EXCEPT ![idx + 1] = Fix(@ * w.d + w.n * v, w.d)]

RECURSIVE Scatter(_, _, _, _, _)
\* loop "for i in 0..3" of particlesToMesh; acc = [nodes, weights]
Scatter(acc, tet, bary, v, i) ==
    IF i >= 4 THEN acc
    ELSE LET nodeIdx == tet[i + 1] * 3
             w == bary[i + 1]
             n1 == AddScaled(acc.nodes, nodeIdx, w, v[1])
             n2 == AddScaled(n1, nodeIdx + 1, w, v[2])
             n3 == AddScaled(n2, nodeIdx + 2, w, v[3])
         IN  The({ Scatter(next, tet, bary, v, i + 1) :
                   next \in {[nodes |-> n3,
                              weights |-> [acc.weights EXCEPT
                                              ![tet[i + 1] + 1] = RAdd(@, w)]]} })

\* one pass of the loop "for p in 0, 3, .. < positions.length" of
\* particlesToMesh.  The array being accumulated is mesh.getNodes(), the one
\* the point location reads.
P2GBody(acc, tets, tc, pos, vel, p) ==
    The({ IF tetIndex < 0 THEN acc
          ELSE The({ Scatter(acc, getTetrahedron(tets, tetIndex), bary,
                             <<At(vel, p), At(vel, p + 1), At(vel, p + 2)>>, 0) :
                     bary \in {computeBarycentricCoordinates(
                                  acc.nodes, tets, tetIndex,
                                  At(pos, p), At(pos, p + 1), At(pos, p + 2))} }) :
          tetIndex \in {findContainingTetrahedron(
                           acc.nodes, tets, tc,
                           At(pos, p), At(pos, p + 1), At(pos, p + 2))} })

RECURSIVE P2GLoop(_, _, _, _, _, _)
P2GLoop(acc, tets, tc, pos, vel, p) ==
    IF p >= Len(pos) THEN acc
    ELSE The({ P2GLoop(next, tets, tc, pos, vel, p + 3) :
               next \in {P2GBody(acc, tets, tc, pos, vel, p)} })

\* particlesToMesh: meshNodes is mesh.getNodes(), i.e. mesh.nodes itself;
\* the result is both left in mesh.nodes and copied to mesh.nodeVelocities
particlesToMesh(nds, tets, tc, pos, vel) ==
    The({ LET meshNodes ==
                  Arr([f \in 1..Len(nds) |->
                          LET w == acc.weights[((f - 1) \div 3) + 1]
                          IN  IF w.n > 0 THEN Fix(acc.nodes[f] * w.d, w.n)
                              ELSE acc.nodes[f]])
          IN  [nodes |-> meshNodes, nodeVelocities |-> meshNodes] :
          acc \in { P2GLoop([nodes |-> Arr([f \in 1..Len(nds) |-> 0]),
                             weights |-> Arr([n \in 1..(Len(nds) \div 3) |->
                                                RInt(0)])],
                            tets, tc, pos, vel, 0) } })

applyBodyForces(nv, g, dt) ==
    Arr([f \in 1..Len(nv) |->
        IF (f - 1) % 3 = 1 THEN Fix(nv[f] * 1000 + g * dt, 1000) ELSE nv[f]])

\* the interpolated velocity sum(bary[i] * nodeVelocities[tet[i]]) as it is
\* stored in the Float32Array of particle velocities
Interpolate(nv, tet, bary) ==
    [c \in 1..3 |->
        The({ Fix(total.n, total.d) :
              total \in {RAdd(RAdd(Rat(bary[1].n * At(nv, tet[1] * 3 + c - 1),
                                       bary[1].d),
                                   Rat(bary[2].n * At(nv, tet[2] * 3 + c - 1),
                                       bary[2].d)),
                              RAdd(Rat(bary[3].n * At(nv, tet[3] * 3 + c - 1),
                                       bary[3].d),
                                   Rat(bary[4].n * At(nv, tet[4] * 3 + c - 1),
                                       bary[4].d)))} })]

\* one pass of the loop of meshToParticles: the new velocity of the particle
\* at offset p
G2PBody(nds, nv, tets, tc, pos, vel, p) ==
    The({ IF tetIndex < 0
          THEN <<At(vel, p), At(vel, p + 1), At(vel, p + 2)>>
          ELSE The({ Interpolate(nv, getTetrahedron(tets, tetIndex), bary) :
                     bary \in {computeBarycentricCoordinates(
                                  nds, tets, tetIndex,
                                  At(pos, p), At(pos, p + 1), At(pos, p + 2))} }) :
          tetIndex \in {findContainingTetrahedron(
                           nds, tets, tc,
                           At(pos, p), At(pos, p + 1), At(pos, p + 2))} })

\* variant: the interpolated velocity is blended with the particle's old
\* velocity by flipRatio instead of replacing it
meshToParticlesBlend(nds, nv, tets, tc, pos, vel) ==
    The({ Arr([f \in 1..Len(pos) |->
                 Fix(FlipRatio * vel[f]
                       + (100 - FlipRatio)
                           * perParticle[((f - 1) \div 3) + 1][((f - 1) % 3) + 1],
                     100)]) :
          perParticle \in
              { Arr([q \in 1..(Len(pos) \div 3) |->
                       Arr(G2PBody(nds, nv, tets, tc, pos, vel, 3 * (q - 1)))]) } })

\* the velocities array after the loop of meshToParticles
meshToParticles(nds, nv, tets, tc, pos, vel) ==
    The({ Arr([f \in 1..Len(pos) |-> perParticle[((f - 1) \div 3) + 1][((f - 1) % 3) + 1]]) :
          perParticle \in
              { Arr([q \in 1..(Len(pos) \div 3) |->
                       Arr(G2PBody(nds, nv, tets, tc, pos, vel, 3 * (q - 1)))]) } })

\* the positions array after the loop of advectParticles
advectParticles(pos, vel, dt) ==
    Arr([f \in 1..Len(pos) |-> Fix(pos[f] * 1000 + vel[f] * dt, 1000)])

Restitution == [n |-> 3, d |-> 10]

\* variant: the lower bound of the domain is not enforced
handleCollisionsHigh(pos, vel, dmin, dmax) ==
    LET axis(f) == ((f - 1) % 3) + 1
        high(f) == pos[f] > dmax[axis(f)]
        bounce(f) == Fix(Abs(vel[f]) * Restitution.n, Restitution.d)
    IN  [positions |->
            Arr([f \in 1..Len(pos) |-> IF high(f) THEN dmax[axis(f)] ELSE pos[f]]),
         velocities |->
            Arr([f \in 1..Len(pos) |-> IF high(f) THEN -bounce(f) ELSE vel[f]])]

\* variant: the reflected velocity at the upper bound keeps its magnitude's
\* sign (the minus is lost)
handleCollisionsKeepSign(pos, vel, dmin, dmax) ==
    LET axis(f) == ((f - 1) % 3) + 1
        low(f) == pos[f] < dmin[axis(f)]
        high(f) == pos[f] > dmax[axis(f)]
        bounce(f) == Fix(Abs(vel[f]) * Restitution.n, Restitution.d)
    IN  [positions |->
            Arr([f \in 1..Len(pos) |->
                    IF low(f) THEN dmin[axis(f)]
                    ELSE IF high(f) THEN dmax[axis(f)]
                    ELSE pos[f]]),
         velocities |->
            Arr([f \in 1..Len(pos) |->
                    IF low(f) THEN bounce(f)
                    ELSE IF high(f) THEN bounce(f)
                    ELSE vel[f]])]

\* the positions and velocities arrays after the loop of handleCollisions
handleCollisions(pos, vel, dmin, dmax) ==
    LET axis(f) == ((f - 1) % 3) + 1
        low(f) == pos[f] < dmin[axis(f)]
        high(f) == pos[f] > dmax[axis(f)]
        bounce(f) == Fix(Abs(vel[f]) * Restitution.n, Restitution.d)
    IN  [positions |->
            Arr([f \in 1..Len(pos) |->
                    IF low(f) THEN dmin[axis(f)]
                    ELSE IF high(f) THEN dmax[axis(f)]
                    ELSE pos[f]]),
         velocities |->
            Arr([f \in 1..Len(pos) |->
                    IF low(f) THEN bounce(f)
                    ELSE IF high(f) THEN -bounce(f)
                    ELSE vel[f]])]

\* variant: only the positions are handed to the particle system, the
\* velocities stay as they are
setupDamBreakKeepVelocities(ps, cap, rnd) ==
    LET particlePositions ==
            [f \in 1..(3 * NumParticles) |->
                LET c == (f - 1) % 3
                IN  IF c = 0
                    THEN Fix(-(8 * UnitsPerMetre) * 100
                               + rnd[f] * ((4 * UnitsPerMetre) \div 10), 1000)
                    ELSE IF c = 1
                    THEN Fix(-(8 * UnitsPerMetre) * 100
                               + rnd[f] * ((12 * UnitsPerMetre) \div 10), 1000)
                    ELSE Fix(-(3 * UnitsPerMetre) * 100
                               + rnd[f] * ((6 * UnitsPerMetre) \div 10), 1000)]
    IN  setPositions(ps, cap, particlePositions)

\* setupDamBreak; rnd[f] is the value of the f-th Math.random() call, in
\* thousandths
setupDamBreak(ps, cap, rnd) ==
    LET particlePositions ==
            [f \in 1..(3 * NumParticles) |->
                LET c == (f - 1) % 3
                IN  IF c = 0
                    THEN Fix(-(8 * UnitsPerMetre) * 100
                               + rnd[f] * ((4 * UnitsPerMetre) \div 10), 1000)
                    ELSE IF c = 1
                    THEN Fix(-(8 * UnitsPerMetre) * 100
                               + rnd[f] * ((12 * UnitsPerMetre) \div 10), 1000)
                    ELSE Fix(-(3 * UnitsPerMetre) * 100
                               + rnd[f] * ((6 * UnitsPerMetre) \div 10), 1000)]
        particleVelocities == [f \in 1..(3 * NumParticles) |-> 0]
    IN  setVelocities(setPositions(ps, cap, particlePositions),
                      cap, particleVelocities)

\* the 3 * NumParticles values drawn by one setupDamBreak: every particle
\* takes one of the sampled triples
RandomDraws ==
    { [f \in 1..(3 * NumParticles) |-> pick[((f - 1) \div 3) + 1][((f - 1) % 3) + 1]] :
        pick \in [1..NumParticles -> RandomSamples] }

\* TetFlipSimulator constructor followed by initialize()
SimInit ==
    /\ domainMin = <<-UnitsPerMetre, -UnitsPerMetre, -UnitsPerMetre>>
    /\ domainMax = <<UnitsPerMetre, UnitsPerMetre, UnitsPerMetre>>
    /\ nodes = RegularNodes(domainMin, domainMax, GridRes, GridRes, GridRes)
    /\ nodeVelocities = [f \in 1..Len(nodes) |-> 0]
    /\ tetrahedra = RegularTetrahedra(GridRes, GridRes, GridRes)
    /\ nodeCount = Len(nodes) \div 3
    /\ tetCount = Len(tetrahedra) \div 4
    /\ maxParticles = NumParticles
    /\ \E rnd \in RandomDraws :
         LET ps == setupDamBreak(NewParticles(NumParticles), NumParticles, rnd)
         IN  /\ positions = ps.positions
             /\ velocities = ps.velocities
             /\ count = ps.count
             /\ consoleLog = ps.log
    /\ timeStep = DefaultTimeStep
    /\ gravity = DefaultGravity
    /\ viscosity = DefaultViscosity
    /\ simulationTime = 0
    /\ solver = SolverIdle
    /\ app = AppNew
    /\ lastOp = [op |-> "initialize", args |-> <<>>, ret |-> 0]

\* the fields of the simulator and of its mesh and particle system, as one
\* record
Sim ==
    [domainMin |-> domainMin, domainMax |-> domainMax, nodes |-> nodes,
     nodeVelocities |-> nodeVelocities, tetrahedra |-> tetrahedra,
     nodeCount |-> nodeCount, tetCount |-> tetCount,
     maxParticles |-> maxParticles, particles |-> Particles,
     timeStep |-> timeStep, gravity |-> gravity, viscosity |-> viscosity,
     simulationTime |-> simulationTime]

\* variant: after gravity the node velocities are damped by the viscosity
\* (in thousandths)
stepResultViscous(st) ==
    The({ The({ The({ The({ The({ The({ The({ The({ The({
        [st EXCEPT !.nodes = mesh1.nodes,
                   !.nodeVelocities = nv3,
                   !.particles = setVelocities(ps6, st.maxParticles,
                                               hit.velocities),
                   !.simulationTime = st.simulationTime + st.timeStep] :
        ps6 \in { setPositions(ps5, st.maxParticles, hit.positions) } }) :
        hit \in { handleCollisions(ps5.positions, ps5.velocities,
                                   st.domainMin, st.domainMax) } }) :
        ps5 \in { setPositions(ps4, st.maxParticles, x5) } }) :
        x5 \in { advectParticles(ps4.positions, ps4.velocities,
                                 st.timeStep) } }) :
        ps4 \in { setVelocities(st.particles, st.maxParticles, v4) } }) :
        v4 \in { meshToParticles(mesh1.nodes, nv3, st.tetrahedra, st.tetCount,
                                 st.particles.positions,
                                 st.particles.velocities) } }) :
        nv3 \in { solve(mesh1.nodes, nv2, st.tetrahedra, st.tetCount,
                        st.nodeCount, st.timeStep) } }) :
        nv2 \in { Arr([f \in 1..Len(mesh1.nodeVelocities) |->
                         Fix(applyBodyForces(mesh1.nodeVelocities, st.gravity,
                                             st.timeStep)[f]
                               * (1000 - st.viscosity), 1000)]) } }) :
        mesh1 \in { particlesToMesh(st.nodes, st.tetrahedra, st.tetCount,
                                    st.particles.positions,
                                    st.particles.velocities) } })

\* the simulator record after step() on the simulator record st: the phases
\* in the order they run (applyPressureGradient has an empty body)
stepResult(st) ==
    The({ The({ The({ The({ The({ The({ The({ The({ The({
        [st EXCEPT !.nodes = mesh1.nodes,
                   !.nodeVelocities = nv3,
                   !.particles = setVelocities(ps6, st.maxParticles,
                                               hit.velocities),
                   !.simulationTime = st.simulationTime + st.timeStep] :
        ps6 \in { setPositions(ps5, st.maxParticles, hit.positions) } }) :
        hit \in { handleCollisions(ps5.positions, ps5.velocities,
                                   st.domainMin, st.domainMax) } }) :
        ps5 \in { setPositions(ps4, st.maxParticles, x5) } }) :
        x5 \in { advectParticles(ps4.positions, ps4.velocities,
                                 st.timeStep) } }) :
        ps4 \in { setVelocities(st.particles, st.maxParticles, v4) } }) :
        v4 \in { meshToParticles(mesh1.nodes, nv3, st.tetrahedra, st.tetCount,
                                 st.particles.positions,
                                 st.particles.velocities) } }) :
        nv3 \in { solve(mesh1.nodes, nv2, st.tetrahedra, st.tetCount,
                        st.nodeCount, st.timeStep) } }) :
        nv2 \in { applyBodyForces(mesh1.nodeVelocities, st.gravity,
                                  st.timeStep) } }) :
        mesh1 \in { particlesToMesh(st.nodes, st.tetrahedra, st.tetCount,
                                    st.particles.positions,
                                    st.particles.velocities) } })

\* variant: step() advances the time by the default time step
StepDefaultTimeStep ==
    \E st \in { Sim } :
    \E r \in { stepResult(st) } :
        /\ nodes' = r.nodes
        /\ nodeVelocities' = r.nodeVelocities
        /\ StoreParticles(r.particles)
        /\ simulationTime' = simulationTime + DefaultTimeStep
        /\ UNCHANGED driverVars
        /\ lastOp' = [op |-> "step", args |-> <<>>, ret |-> 0]
        /\ UNCHANGED <<domainMin, domainMax, tetrahedra, nodeCount, tetCount,
                       timeStep, gravity, viscosity>>

\* TetFlipSimulator.step()
Step ==
    \E st \in { Sim } :
    \E r \in { stepResult(st) } :
        /\ nodes' = r.nodes
        /\ nodeVelocities' = r.nodeVelocities
        /\ StoreParticles(r.particles)
        /\ simulationTime' = r.simulationTime
        /\ UNCHANGED driverVars
        /\ lastOp' = [op |-> "step", args |-> <<>>, ret |-> 0]
        /\ UNCHANGED <<domainMin, domainMax, tetrahedra, nodeCount, tetCount,
                       timeStep, gravity, viscosity>>

\* TetFlipSimulator.reset()
Reset ==
    \E rnd \in RandomDraws :
        /\ simulationTime' = 0
        /\ StoreParticles(setupDamBreak(Particles, maxParticles, rnd))
        /\ UNCHANGED driverVars
        /\ lastOp' = [op |-> "reset", args |-> <<>>, ret |-> 0]
        /\ UNCHANGED <<meshVars, timeStep, gravity, viscosity>>

SetTimeStep ==
    \E dt \in TimeSteps :
        /\ timeStep' = dt
        /\ consoleLog' = <<>>
        /\ UNCHANGED driverVars
        /\ lastOp' = [op |-> "setTimeStep", args |-> <<dt>>, ret |-> 0]
        /\ UNCHANGED <<meshVars, maxParticles, count, positions, velocities,
                       gravity, viscosity, simulationTime>>

SetGravity ==
    \E g \in Gravities :
        /\ gravity' = g
        /\ consoleLog' = <<>>
        /\ UNCHANGED driverVars
        /\ lastOp' = [op |-> "setGravity", args |-> <<g>>, ret |-> 0]
        /\ UNCHANGED <<meshVars, maxParticles, count, positions, velocities,
                       timeStep, viscosity, simulationTime>>

SetViscosity ==
    \E v \in Viscosities :
        /\ viscosity' = v
        /\ consoleLog' = <<>>
        /\ UNCHANGED driverVars
        /\ lastOp' = [op |-> "setViscosity", args |-> <<v>>, ret |-> 0]
        /\ UNCHANGED <<meshVars, maxParticles, count, positions, velocities,
                       timeStep, gravity, simulationTime>>

\* the simulator driven through its own interface; steps are taken while
\* the simulation time is below MaxSimTime
Next ==
    \/ (simulationTime < MaxSimTime /\ Step)
    \/ Reset
    \/ SetTimeStep
    \/ SetGravity
    \/ SetViscosity

Spec == SimInit /\ [][Next]_vars

\* the dam-break run of the end-to-end test: default parameters, steps only
DamNext == simulationTime < DamSimTime /\ Step

SpecDam == SimInit /\ [][DamNext]_vars

\* the simulator driven by step(), reset() and the viscosity slider only
ViscosityNext ==
    \/ (simulationTime < MaxSimTime /\ Step)
    \/ Reset
    \/ SetViscosity

SpecViscosity == SimInit /\ [][ViscosityNext]_vars

\* ------------------------------------------- particle-level specification
\* arrays handed to setPositions / setVelocities by a caller: empty, a
\* length that is no multiple of 3, exactly the capacity, and MaxExtra
\* particles beyond the capacity
InputLengths == {0, 4, 3 * NumParticles, 3 * (NumParticles + MaxExtra)}

InputArrays == { [f \in 1..len |-> 0] : len \in InputLengths }

\* particles.setPositions(arr)
SetPositions ==
    \E arr \in InputArrays :
      \E r \in { setPositions(Particles, maxParticles, arr) } :
        /\ StoreParticles(r)
        /\ UNCHANGED driverVars
        /\ lastOp' = [op |-> "setPositions", args |-> <<arr>>, ret |-> r.error]
        /\ UNCHANGED <<meshVars, paramVars>>

\* particles.setVelocities(arr)
SetVelocities ==
    \E arr \in InputArrays :
      \E r \in { setVelocities(Particles, maxParticles, arr) } :
        /\ StoreParticles(r)
        /\ UNCHANGED driverVars
        /\ lastOp' = [op |-> "setVelocities", args |-> <<arr>>, ret |-> r.error]
        /\ UNCHANGED <<meshVars, paramVars>>

ParticlesNext ==
    \/ SetPositions
    \/ SetVelocities
    \/ (simulationTime < MaxSimTime /\ Step)
    \/ Reset

SpecParticles == SimInit /\ [][ParticlesNext]_vars

\* ------------------------------------------------ mesh-level specification
\* (domainMin, domainMax) pairs handed to the TetrahedralMesh constructor
Domains ==
    { <<<<0, 0, 0>>, <<1, 1, 3>>>>,
      <<<<0, 0, 0>>, <<4, 4, 0>>>>,
      <<<<-1, -1, -1>>, <<3, 3, 3>>>> }

QueryRange == (-1)..MaxQuery

\* new TetrahedralMesh(device, domainMin, domainMax)
MeshInit ==
    /\ \E d \in Domains : domainMin = d[1] /\ domainMax = d[2]
    /\ nodes = <<>>
    /\ nodeVelocities = <<>>
    /\ tetrahedra = <<>>
    /\ nodeCount = 0
    /\ tetCount = 0
    /\ maxParticles = 0
    /\ count = RInt(0)
    /\ positions = <<>>
    /\ velocities = <<>>
    /\ consoleLog = <<>>
    /\ timeStep = DefaultTimeStep
    /\ gravity = DefaultGravity
    /\ viscosity = DefaultViscosity
    /\ simulationTime = 0
    /\ solver = SolverIdle
    /\ app = AppNew
    /\ lastOp = [op |-> "constructor", args |-> <<>>, ret |-> 0]

\* initialize() builds the mesh once, right after construction; a query reads
\* the mesh without changing it, so each behaviour issues one query on the
\* constructed mesh (longer query sequences reach no further mesh state).
MeshBuilt == lastOp.op \in {"createRegularMesh", "initialize"}

\* createRegularMesh(nx, ny, nz); ret tells whether the call threw (the
\* method has no throw statement and none of its operations throws)
MeshCreate ==
    \E nx \in 0..MaxRes, ny \in 0..MaxRes, nz \in 0..MaxRes :
        /\ lastOp.op = "constructor"
        /\ createRegularMesh(nx, ny, nz)
        /\ UNCHANGED driverVars
        /\ lastOp' = [op |-> "createRegularMesh", args |-> <<nx, ny, nz>>,
                      ret |-> FALSE]
        /\ UNCHANGED <<domainMin, domainMax, particleVars, paramVars>>

\* variant: initialize() asks for one layer of cells too many on the z axis
MeshInitializeNine ==
    /\ lastOp.op = "constructor"
    /\ createRegularMesh(InitRes, InitRes, InitRes + 1)
    /\ UNCHANGED driverVars
    /\ lastOp' = [op |-> "initialize", args |-> <<>>, ret |-> 0]
    /\ UNCHANGED <<domainMin, domainMax, particleVars, paramVars>>

\* TetrahedralMesh.initialize()
MeshInitialize ==
    /\ lastOp.op = "constructor"
    /\ createRegularMesh(InitRes, InitRes, InitRes)
    /\ UNCHANGED driverVars
    /\ lastOp' = [op |-> "initialize", args |-> <<>>, ret |-> 0]
    /\ UNCHANGED <<domainMin, domainMax, particleVars, paramVars>>

MeshLocate ==
    /\ MeshBuilt
    /\ tetCount <= MaxScan
    /\ \E x \in QueryRange, y \in QueryRange, z \in QueryRange :
        /\ UNCHANGED driverVars
        /\ lastOp' = [op |-> "findContainingTetrahedron",
                      args |-> <<x, y, z>>,
                      ret |-> findContainingTetrahedron(nodes, tetrahedra,
                                                        tetCount, x, y, z)]
        /\ UNCHANGED <<meshVars, particleVars, paramVars>>

MeshBary ==
    /\ MeshBuilt
    /\ tetCount <= MaxScan
    /\ \E t \in 0..(tetCount - 1) :
      \E x \in QueryRange, y \in QueryRange, z \in QueryRange :
        /\ UNCHANGED driverVars
        /\ lastOp' = [op |-> "computeBarycentricCoordinates",
                      args |-> <<t, x, y, z>>,
                      ret |-> computeBarycentricCoordinates(nodes, tetrahedra,
                                                            t, x, y, z)]
        /\ UNCHANGED <<meshVars, particleVars, paramVars>>

MeshNext == MeshCreate \/ MeshInitialize \/ MeshLocate \/ MeshBary

SpecMesh == MeshInit /\ [][MeshNext]_vars

\* --------------------------------------------- collision-level specification
\* particle states handed to the particle system before a collision pass:
\* <<x, y, z, vx, vy, vz>> with components above the upper bound, below the
\* lower bound, exactly on a bound and inside, moving either way
CollideSamples ==
    { <<2100, 0, -2100, 500, 700, -500>>,
      <<2100, -2100, 2000, -500, 505, 300>>,
      <<-2000, 2400, 100, -300, 0, 0>>,
      <<-2600, 1999, -2001, 1000, -7, 9>>,
      <<0, 0, 0, 0, -19600, 0>>,
      <<2001, 2001, 2001, 1, 3, 4>>,
      <<-3000, -3000, 3000, -2000, 2000, 0>>,
      <<1500, -1500, 500, 333, -333, 10>> }

\* the flat array of the components lo..lo+2 of each particle's sample
SampleArray(pick, lo) ==
    [f \in 1..(3 * NumParticles) |->
        pick[((f - 1) \div 3) + 1][lo + ((f - 1) % 3)]]

\* the simulator after initialize() with the fields domainMin / domainMax
\* holding dmin / dmax, on a grid of res cells per axis, with the particle
\* system holding ps
SimulatorWith(dmin, dmax, res, ps) ==
    /\ domainMin = dmin
    /\ domainMax = dmax
    /\ nodes = RegularNodes(domainMin, domainMax, res, res, res)
    /\ nodeVelocities = [f \in 1..Len(nodes) |-> 0]
    /\ tetrahedra = RegularTetrahedra(res, res, res)
    /\ nodeCount = Len(nodes) \div 3
    /\ tetCount = Len(tetrahedra) \div 4
    /\ maxParticles = NumParticles
    /\ positions = ps.positions
    /\ velocities = ps.velocities
    /\ count = ps.count
    /\ consoleLog = ps.log
    /\ timeStep = DefaultTimeStep
    /\ gravity = DefaultGravity
    /\ viscosity = DefaultViscosity
    /\ simulationTime = 0

\* initialize(), then particles.setPositions and particles.setVelocities with
\* one sample per particle
CollideInit ==
    \E pick \in [1..NumParticles -> CollideSamples] :
        /\ SimulatorWith(<<-UnitsPerMetre, -UnitsPerMetre, -UnitsPerMetre>>,
                         <<UnitsPerMetre, UnitsPerMetre, UnitsPerMetre>>,
                         GridRes,
                         setVelocities(setPositions(NewParticles(NumParticles),
                                                    NumParticles,
                                                    SampleArray(pick, 1)),
                                       NumParticles, SampleArray(pick, 4)))
        /\ solver = SolverIdle
        /\ app = AppNew
        /\ lastOp = [op |-> "setVelocities", args |-> <<SampleArray(pick, 4)>>,
                     ret |-> FALSE]

\* TetFlipSimulator.handleCollisions(); args holds the two buffers as they
\* were when the call was made
HandleCollisions ==
    \E hit \in { handleCollisions(positions, velocities,
                                  domainMin, domainMax) } :
    \E ps1 \in { setPositions(Particles, maxParticles, hit.positions) } :
        /\ StoreParticles(setVelocities(ps1, maxParticles, hit.velocities))
        /\ UNCHANGED driverVars
        /\ lastOp' = [op |-> "handleCollisions",
                      args |-> <<positions, velocities>>, ret |-> 0]
        /\ UNCHANGED <<meshVars, paramVars>>

CollideNext == HandleCollisions

SpecCollide == CollideInit /\ [][CollideNext]_vars

\* ---------------------------------------------- transfer-level specification
\* The transfers are explored on a domain of half-width TransferHalf length
\* units (domainMin / domainMax edited as the FAQ describes), so that the
\* volumes of the undeformed grid stay within the integers of the checker.
TransferHalf == 60

\* particle states <<x, y, z, vx, vy, vz>>: in the first grid cell next to
\* its +x corner, next to the far corner of the domain, in the middle of
\* the first grid cell, and outside the domain
TransferSamples ==
    { <<-10, -50, -50, 800, 0, -400>>,
      <<50, 50, 50, 0, 400, 1200>>,
      <<-40, -30, -30, -600, 200, 0>>,
      <<100, 100, 100, 1000, 1000, 1000>> }

\* arrays handed to mesh.setNodeVelocities
NodeVelocitySamples ==
    { [f \in 1..Len(nodes) |-> ((37 * f) % 11) * 60 - 300] }

TransferInit ==
    \E pick \in [1..NumParticles -> TransferSamples] :
        /\ SimulatorWith(<<-TransferHalf, -TransferHalf, -TransferHalf>>,
                         <<TransferHalf, TransferHalf, TransferHalf>>,
                         TransferRes,
                         setVelocities(setPositions(NewParticles(NumParticles),
                                                    NumParticles,
                                                    SampleArray(pick, 1)),
                                       NumParticles, SampleArray(pick, 4)))
        /\ solver = SolverIdle
        /\ app = AppNew
        /\ lastOp = [op |-> "setVelocities", args |-> <<SampleArray(pick, 4)>>,
                     ret |-> FALSE]

\* TetFlipSimulator.particlesToMesh(); args holds mesh.nodes as it was when
\* the call was made
ParticlesToMesh ==
    \E mesh1 \in { particlesToMesh(nodes, tetrahedra, tetCount,
                                   positions, velocities) } :
        /\ nodes' = mesh1.nodes
        /\ nodeVelocities' = mesh1.nodeVelocities
        /\ consoleLog' = <<>>
        /\ UNCHANGED driverVars
        /\ lastOp' = [op |-> "particlesToMesh", args |-> <<nodes>>, ret |-> 0]
        /\ UNCHANGED <<domainMin, domainMax, tetrahedra, nodeCount, tetCount,
                       maxParticles, count, positions, velocities, paramVars>>

\* TetFlipSimulator.meshToParticles(); args holds the particle velocities as
\* they were when the call was made
MeshToParticles ==
    \E v4 \in { meshToParticles(nodes, nodeVelocities, tetrahedra, tetCount,
                                positions, velocities) } :
        /\ StoreParticles(setVelocities(Particles, maxParticles, v4))
        /\ UNCHANGED driverVars
        /\ lastOp' = [op |-> "meshToParticles", args |-> <<velocities>>,
                      ret |-> 0]
        /\ UNCHANGED <<meshVars, paramVars>>

\* TetrahedralMesh.setNodeVelocities(velocities)
SetNodeVelocities ==
    \E nv \in NodeVelocitySamples :
        /\ nodeVelocities' = nv
        /\ consoleLog' = <<>>
        /\ UNCHANGED driverVars
        /\ lastOp' = [op |-> "setNodeVelocities", args |-> <<nv>>, ret |-> 0]
        /\ UNCHANGED <<domainMin, domainMax, nodes, tetrahedra, nodeCount,
                       tetCount, maxParticles, count, positions, velocities,
                       paramVars>>

TransferNext == ParticlesToMesh \/ MeshToParticles \/ SetNodeVelocities

SpecTransfer == TransferInit /\ [][TransferNext]_vars

\* ------------------------------------------------ solver-level specification
\* PressureSolver.solve(mesh, dt) taken one pass of the relaxation loop at a
\* time, on the undeformed grid over a domain of half-width SolverHalf
\* length units (domainMin / domainMax edited as the FAQ describes; the
\* vertex spacing is below 0.1 m), for node velocity fields handed to
\* mesh.setNodeVelocities.
SolverHalf == 5

\* node velocity fields: at rest, a small perturbation, two nodes moving
\* against each other, and a uniform expansion (velocity proportional to
\* position) strong enough for the pressures to pass 2^24 units within the
\* iteration cap
SolverVelocitySamples ==
    { [f \in 1..Len(nodes) |-> 0],
      [f \in 1..Len(nodes) |-> ((37 * f) % 11) - 5],
      [f \in 1..Len(nodes) |-> IF f = 6 THEN 1 ELSE IF f = 8 THEN -1 ELSE 0],
      [f \in 1..Len(nodes) |-> 1000 * nodes[f]] }

SolverInit ==
    /\ SimulatorWith(<<-SolverHalf, -SolverHalf, -SolverHalf>>,
                     <<SolverHalf, SolverHalf, SolverHalf>>,
                     SolverRes, NewParticles(NumParticles))
    /\ solver = SolverIdle
    /\ app = AppNew
    /\ lastOp = [op |-> "initialize", args |-> <<>>, ret |-> 0]

\* mesh.setNodeVelocities(velocities) between two solves
SolverSetNodeVelocities ==
    /\ ~ solver.active
    /\ \E nv \in SolverVelocitySamples :
        /\ nodeVelocities' = nv
        /\ UNCHANGED driverVars
        /\ lastOp' = [op |-> "setNodeVelocities", args |-> <<nv>>, ret |-> 0]
        /\ UNCHANGED <<domainMin, domainMax, nodes, tetrahedra, nodeCount,
                       tetCount, particleVars, paramVars>>

\* solve() up to the head of the relaxation loop: computeDivergence, the
\* zero-filled pressure array, and the first lines of conjugateGradient (rhs
\* scaled by dt, zero-filled pressureOld); each solve is run on a velocity
\* field handed to setNodeVelocities
SolveBegin ==
    /\ ~ solver.active
    /\ lastOp.op = "setNodeVelocities"
    /\ \E divergence \in { computeDivergence(nodes, nodeVelocities, tetrahedra,
                                             tetCount, nodeCount) } :
        /\ solver' = [active |-> TRUE,
                      rhs |-> ScaledRhs(divergence, nodeCount, timeStep),
                      pressure |-> Arr([i \in 1..nodeCount |-> 0]),
                      pressureOld |-> Arr([i \in 1..nodeCount |-> 0]),
                      iterations |-> 0, maxDiff |-> 0, done |-> FALSE]
        /\ lastOp' = [op |-> "computeDivergence", args |-> <<>>,
                      ret |-> divergence]
        /\ UNCHANGED <<meshVars, particleVars, paramVars, app>>

\* one pass of the body of "for (iter < maxIterations)" of conjugateGradient
SolveIterate ==
    /\ solver.active
    /\ ~ solver.done
    /\ solver.iterations < MaxIterations
    /\ \E nbrs \in { NeighborTable(tetrahedra, tetCount, nodeCount) } :
       \E st \in { JacobiStep(nbrs, nodeCount, solver.rhs,
                              [pressure |-> solver.pressure,
                               iterations |-> solver.iterations,
                               done |-> solver.done]) } :
        /\ solver' = [solver EXCEPT
                        !.pressureOld = solver.pressure,
                        !.pressure = st.pressure,
                        !.iterations = st.iterations,
                        !.maxDiff = MaxAbsDiff(st.pressure, solver.pressure, 1),
                        !.done = st.done]
        /\ lastOp' = [op |-> "iterate", args |-> <<>>, ret |-> 0]
        /\ UNCHANGED <<meshVars, particleVars, paramVars, app>>

\* the loop has been left: applyPressureGradient and mesh.setNodeVelocities
SolveFinish ==
    /\ solver.active
    /\ solver.done \/ solver.iterations >= MaxIterations
    /\ nodeVelocities' =
           solverApplyPressureGradient(nodes, tetrahedra, tetCount, nodeCount,
                                       solver.pressure, nodeVelocities,
                                       timeStep)
    /\ solver' = [solver EXCEPT !.active = FALSE]
    /\ lastOp' = [op |-> "solve", args |-> <<>>, ret |-> 0]
    /\ UNCHANGED <<domainMin, domainMax, nodes, tetrahedra, nodeCount,
                   tetCount, particleVars, paramVars, app>>

SolverNext ==
    \/ SolverSetNodeVelocities
    \/ SolveBegin
    \/ SolveIterate
    \/ SolveFinish

SpecSolver == SolverInit /\ [][SolverNext]_vars

\* the scheduling of a solve: the loop and the code after it are straight-
\* line synchronous code, so a solve that can take a step takes it
SpecSolverLive ==
    SolverInit /\ [][SolverNext]_vars
        /\ WF_vars(SolveIterate) /\ WF_vars(SolveFinish)


\* ------------------------------------------------ driver-level specification
\* The App of main.js after init(): the three buttons and the browser's
\* animation frames drive the simulator.  A click handler runs to completion
\* (with the microtasks it queues) before the next click or frame; the
\* callbacks of one frame run one after the other, and a callback registered
\* during a frame runs in the next frame.

\* variant: animate() without the isRunning test
animateUnchecked(a) ==
    [app |-> [a EXCEPT !.scheduled = @ + 1], steps |-> 1]

\* App.animate(): the App record afterwards and the number of
\* simulator.step() calls made
animate(a) ==
    IF ~ a.isRunning THEN [app |-> a, steps |-> 0]
    ELSE [app |-> [a EXCEPT !.scheduled = @ + 1], steps |-> 1]

\* App.start()
start(a) ==
    IF ~ a.isRunning THEN animate([a EXCEPT !.isRunning = TRUE])
    ELSE [app |-> a, steps |-> 0]

\* App.pause()
pause(a) == [a EXCEPT !.isRunning = FALSE]

\* the simulator after n (0 or 1) calls of step()
Stepped(n) ==
    \E st \in { IF n = 0 THEN Sim ELSE stepResult(Sim) } :
        /\ nodes' = st.nodes
        /\ nodeVelocities' = st.nodeVelocities
        /\ StoreParticles(st.particles)
        /\ simulationTime' = st.simulationTime
        /\ UNCHANGED <<domainMin, domainMax, tetrahedra, nodeCount, tetCount,
                       timeStep, gravity, viscosity, solver>>

\* no frame is being processed and no continuation is waiting
AppIdle == app.running = 0 /\ app.resuming = "none"

\* growth of the callback queue and of the simulation time is explored up
\* to MaxPending callbacks and DriverSimTime
CanStep ==
    /\ app.scheduled + app.running < MaxPending
    /\ simulationTime < DriverSimTime

\* click on "Start Simulation"
AppStart ==
    /\ AppIdle
    /\ CanStep
    /\ \E r \in { start(app) } :
        /\ app' = r.app
        /\ Stepped(r.steps)
        /\ lastOp' = [op |-> "start", args |-> <<>>, ret |-> r.steps]

\* click on "Pause"
AppPause ==
    /\ AppIdle
    /\ app' = pause(app)
    /\ Stepped(0)
    /\ lastOp' = [op |-> "pause", args |-> <<>>, ret |-> 0]

\* click on "Reset": App.reset() up to its await; simulator.reset() has run
\* when the await suspends the handler
AppReset ==
    /\ AppIdle
    /\ app.isRunning => CanStep
    /\ app' = [pause(app) EXCEPT
                 !.resuming = IF app.isRunning THEN "wasRunning"
                              ELSE "wasPaused"]
    /\ \E rnd \in RandomDraws :
        /\ simulationTime' = 0
        /\ StoreParticles(setupDamBreak(Particles, maxParticles, rnd))
    /\ lastOp' = [op |-> "reset", args |-> <<>>, ret |-> 0]
    /\ UNCHANGED <<meshVars, timeStep, gravity, viscosity, solver>>

\* App.reset() after its await: updateStats() and, if wasRunning, start()
AppResetResume ==
    /\ app.resuming # "none"
    /\ \E r \in { IF app.resuming = "wasRunning"
                  THEN start([app EXCEPT !.resuming = "none"])
                  ELSE [app |-> [app EXCEPT !.resuming = "none"],
                        steps |-> 0] } :
        /\ app' = r.app
        /\ Stepped(r.steps)
        /\ lastOp' = [op |-> "resetResume", args |-> <<>>, ret |-> r.steps]

\* the browser starts a frame: the callbacks registered so far form the
\* frame's callback list
FrameBegin ==
    /\ AppIdle
    /\ app.scheduled > 0
    /\ app' = [app EXCEPT !.running = app.scheduled, !.scheduled = 0,
                          !.stepsInFrame = 0]
    /\ Stepped(0)
    /\ lastOp' = [op |-> "frame", args |-> <<>>, ret |-> 0]

\* the next callback "() => this.animate()" of the frame's list runs
AppAnimate ==
    /\ app.running > 0
    /\ app.isRunning => simulationTime < DriverSimTime
    /\ \E r \in { animate([app EXCEPT !.running = @ - 1]) } :
        /\ app' = [r.app EXCEPT !.stepsInFrame = @ + r.steps]
        /\ Stepped(r.steps)
        /\ lastOp' = [op |-> "animate", args |-> <<>>, ret |-> r.steps]

DriverNext ==
    \/ AppStart
    \/ AppPause
    \/ AppReset
    \/ AppResetResume
    \/ FrameBegin
    \/ AppAnimate

SpecDriver == SimInit /\ [][DriverNext]_vars


\* ------------------------------------------------ phase-level specification
\* step() taken one call at a time.  lastOp.op is the call that returned
\* last, i.e. the position reached in the body of step().

\* variant: the particles are advected before the velocities are transferred
\* back to them
StepOrderSwapped ==
    <<"particlesToMesh", "applyBodyForces", "solve", "applyPressureGradient",
      "advectParticles", "meshToParticles", "handleCollisions">>

\* the calls in the body of step(), in the order they are written
StepOrder ==
    <<"particlesToMesh", "applyBodyForces", "solve", "applyPressureGradient",
      "meshToParticles", "advectParticles", "handleCollisions">>

\* step() is at the point where it calls `name`: the first call is made when
\* no step is under way, every other one when the call before it returned
PhaseReady(name) ==
    \E k \in 1..Len(StepOrder) :
        /\ StepOrder[k] = name
        /\ IF k = 1
           THEN \A j \in 1..Len(StepOrder) : lastOp.op # StepOrder[j]
           ELSE lastOp.op = StepOrder[k - 1]

\* TetFlipSimulator.applyBodyForces()
ApplyBodyForces ==
    /\ nodeVelocities' = applyBodyForces(nodeVelocities, gravity, timeStep)
    /\ consoleLog' = <<>>
    /\ UNCHANGED driverVars
    /\ lastOp' = [op |-> "applyBodyForces", args |-> <<>>, ret |-> 0]
    /\ UNCHANGED <<domainMin, domainMax, nodes, tetrahedra, nodeCount,
                   tetCount, maxParticles, count, positions, velocities,
                   paramVars>>

\* pressureSolver.solve(mesh, timeStep)
Solve ==
    /\ nodeVelocities' = solve(nodes, nodeVelocities, tetrahedra, tetCount,
                               nodeCount, timeStep)
    /\ consoleLog' = <<>>
    /\ UNCHANGED driverVars
    /\ lastOp' = [op |-> "solve", args |-> <<timeStep>>, ret |-> 0]
    /\ UNCHANGED <<domainMin, domainMax, nodes, tetrahedra, nodeCount,
                   tetCount, maxParticles, count, positions, velocities,
                   paramVars>>

\* TetFlipSimulator.applyPressureGradient(): an empty body
ApplyPressureGradient ==
    /\ consoleLog' = <<>>
    /\ UNCHANGED driverVars
    /\ lastOp' = [op |-> "applyPressureGradient", args |-> <<>>, ret |-> 0]
    /\ UNCHANGED <<meshVars, maxParticles, count, positions, velocities,
                   paramVars>>

\* TetFlipSimulator.advectParticles()
AdvectParticles ==
    \E x5 \in { advectParticles(positions, velocities, timeStep) } :
        /\ StoreParticles(setPositions(Particles, maxParticles, x5))
        /\ UNCHANGED driverVars
        /\ lastOp' = [op |-> "advectParticles", args |-> <<>>, ret |-> 0]
        /\ UNCHANGED <<meshVars, paramVars>>

\* the last statement of step(): simulationTime += timeStep
StepReturn ==
    /\ lastOp.op = StepOrder[Len(StepOrder)]
    /\ simulationTime' = simulationTime + timeStep
    /\ consoleLog' = <<>>
    /\ UNCHANGED driverVars
    /\ lastOp' = [op |-> "step", args |-> <<>>, ret |-> 0]
    /\ UNCHANGED <<meshVars, maxParticles, count, positions, velocities,
                   timeStep, gravity, viscosity>>

PhasesNext ==
    \/ (/\ simulationTime < DamSimTime
        /\ PhaseReady("particlesToMesh") /\ ParticlesToMesh)
    \/ (PhaseReady("applyBodyForces") /\ ApplyBodyForces)
    \/ (PhaseReady("solve") /\ Solve)
    \/ (PhaseReady("applyPressureGradient") /\ ApplyPressureGradient)
    \/ (PhaseReady("meshToParticles") /\ MeshToParticles)
    \/ (PhaseReady("advectParticles") /\ AdvectParticles)
    \/ (PhaseReady("handleCollisions") /\ HandleCollisions)
    \/ StepReturn

SpecPhases == SimInit /\ [][PhasesNext]_vars

\* ================================================================= claims
Axis(f) == ((f - 1) % 3) + 1

\* C1: node positions are immutable after mesh creation: after any sequence
\* of step(), reset() and parameter setters the node position array holds
\* exactly the values written by createRegularMesh.
C1_NodesImmutable ==
    nodes = RegularNodes(domainMin, domainMax, GridRes, GridRes, GridRes)

\* C2: after every completed step() of a run started from the dam-break
\* scenario with default gravity and time step, every particle position lies
\* within [domainMin, domainMax] on each axis.
C2_Containment ==
    lastOp.op = "step" =>
        \A f \in 1..Len(positions) :
            /\ domainMin[Axis(f)] <= positions[f]
            /\ positions[f] <= domainMax[Axis(f)]

\* a step that ended with a particle put back on the domain boundary
C2_Witness ==
    /\ lastOp.op = "step"
    /\ \E f \in 1..Len(positions) :
          /\ positions[f] = domainMin[Axis(f)]
          /\ velocities[f] > 0

TetIds == 0..(tetCount - 1)

TetNodes(t) == { At(tetrahedra, 4 * t + c) : c \in 0..3 }

TetVertex(t, j) == NodePos(nodes, At(tetrahedra, 4 * t + j))

TetVolume(t) ==
    tetrahedronVolume(TetVertex(t, 0), TetVertex(t, 1),
                      TetVertex(t, 2), TetVertex(t, 3))

\* |signed volume| < 1e-10
Degenerate(t) == RLess(RAbs(TetVolume(t)), VolumeEps)

Contains(t, x, y, z) ==
    \A c \in 1..4 :
        computeBarycentricCoordinates(nodes, tetrahedra, t, x, y, z)[c].n >= 0

CellOf(t) == t \div 5

CellIds == 0..((tetCount \div 5) - 1)

CellNodes(c) == UNION { TetNodes(t) : t \in (5 * c)..(5 * c + 4) }

TetFaces(t) == { f \in SUBSET TetNodes(t) : Cardinality(f) = 3 }

\* C4: the tessellation is conforming: every tetrahedron face lying in the
\* square shared by two face-adjacent cells is also a face of a tetrahedron
\* of the neighbouring cell.
C4_Conforming ==
    \A a \in CellIds, b \in CellIds :
        LET shared == CellNodes(a) \cap CellNodes(b)
        IN  (a # b /\ Cardinality(shared) = 4) =>
              \A t \in (5 * a)..(5 * a + 4) :
                \A f \in TetFaces(t) :
                    f \subseteq shared =>
                      \E u \in (5 * b)..(5 * b + 4) : f \subseteq TetNodes(u)

\* C5: findContainingTetrahedron returns the lowest index t whose four
\* barycentric coordinates of the point are all >= 0, and -1 exactly when
\* no tetrahedron passes that test.
C5_FirstMatch ==
    lastOp.op = "findContainingTetrahedron" =>
        LET x == lastOp.args[1]
            y == lastOp.args[2]
            z == lastOp.args[3]
            matches == { t \in TetIds : Contains(t, x, y, z) }
        IN  /\ (lastOp.ret = -1) <=> (matches = {})
            /\ lastOp.ret # -1 =>
                 /\ lastOp.ret \in matches
                 /\ \A t \in matches : lastOp.ret <= t

\* a query answered with a tetrahedron that is not the only candidate
C5_Witness ==
    /\ lastOp.op = "findContainingTetrahedron"
    /\ lastOp.ret > 0
    /\ ~ Degenerate(lastOp.ret)
    /\ \E t \in TetIds :
         /\ t > lastOp.ret
         /\ Contains(t, lastOp.args[1], lastOp.args[2], lastOp.args[3])

\* C6: point location never returns a degenerate tetrahedron unless every
\* tetrahedron of the mesh is degenerate.
C6_NoDegenerateResult ==
    (/\ lastOp.op = "findContainingTetrahedron"
     /\ lastOp.ret >= 0
     /\ Degenerate(lastOp.ret))
        => \A t \in TetIds : Degenerate(t)

OneHot(j) == [c \in 1..4 |-> IF c = j + 1 THEN RInt(1) ELSE RInt(0)]

\* C7: the barycentric coordinates of vertex j of a non-degenerate
\* tetrahedron, relative to that tetrahedron, are 1 at j and 0 elsewhere,
\* whatever the sign of the tetrahedron's volume.
C7_OneHotAtVertices ==
    lastOp.op = "computeBarycentricCoordinates" =>
        LET t == lastOp.args[1]
            p == <<lastOp.args[2], lastOp.args[3], lastOp.args[4]>>
        IN  \A j \in 0..3 :
              (~ Degenerate(t) /\ p = TetVertex(t, j)) =>
                  lastOp.ret = OneHot(j)

\* a vertex query on a non-degenerate tetrahedron of negative volume
C7_Witness ==
    /\ lastOp.op = "computeBarycentricCoordinates"
    /\ ~ Degenerate(lastOp.args[1])
    /\ TetVolume(lastOp.args[1]).n < 0
    /\ <<lastOp.args[2], lastOp.args[3], lastOp.args[4]>>
           = TetVertex(lastOp.args[1], 2)

Weights == 1..MaxWeight

\* p is a convex combination of the four vertices with positive weights
StrictlyInside(t, p) ==
    \E a0 \in Weights, a1 \in Weights, a2 \in Weights, a3 \in Weights :
        \A c \in 1..3 :
            (a0 + a1 + a2 + a3) * p[c] =
                a0 * TetVertex(t, 0)[c] + a1 * TetVertex(t, 1)[c]
              + a2 * TetVertex(t, 2)[c] + a3 * TetVertex(t, 3)[c]

\* C8: for a non-degenerate tetrahedron and a point strictly inside it, the
\* four barycentric coordinates each lie in [0,1] and sum to 1.
C8_InsideUnitSum ==
    lastOp.op = "computeBarycentricCoordinates" =>
        LET t == lastOp.args[1]
            p == <<lastOp.args[2], lastOp.args[3], lastOp.args[4]>>
            b == lastOp.ret
        IN  (~ Degenerate(t) /\ StrictlyInside(t, p)) =>
              /\ \A c \in 1..4 : b[c].n >= 0 /\ b[c].n <= b[c].d
              /\ RAdd(RAdd(b[1], b[2]), RAdd(b[3], b[4])) = RInt(1)

\* an interior query on a non-degenerate tetrahedron of negative volume
C8_Witness ==
    /\ lastOp.op = "computeBarycentricCoordinates"
    /\ ~ Degenerate(lastOp.args[1])
    /\ TetVolume(lastOp.args[1]).n < 0
    /\ StrictlyInside(lastOp.args[1],
                      <<lastOp.args[2], lastOp.args[3], lastOp.args[4]>>)

\* C9: setPositions with more than maxParticles * 3 entries does not fail:
\* the input is truncated to the capacity, getCount() is maxParticles
\* afterwards, and the truncation warning is emitted.
C9_TruncateToCapacity ==
    (lastOp.op = "setPositions" /\ Len(lastOp.args[1]) > maxParticles * 3) =>
        /\ lastOp.ret = FALSE
        /\ positions = SubSeq(lastOp.args[1], 1, maxParticles * 3)
        /\ count = RInt(maxParticles)
        /\ \E k \in 1..Len(consoleLog) :
              consoleLog[k] = "Too many particles, truncating"

C9_Witness ==
    /\ lastOp.op = "setPositions"
    /\ Len(lastOp.args[1]) = 3 * (maxParticles + 1)
    /\ count = RInt(maxParticles)
    /\ consoleLog # <<>>

\* C10: in every state reached from ParticleSystem.initialize() by
\* setPositions, setVelocities, step() and reset(), count <= maxParticles,
\* and maxParticles and the lengths of the two buffers are the ones set at
\* construction.
C10_CountWithinCapacity ==
    /\ count.n <= maxParticles * count.d
    /\ maxParticles = NumParticles
    /\ Len(positions) = 3 * NumParticles
    /\ Len(velocities) = 3 * NumParticles

C10_Witness ==
    /\ lastOp.op = "setVelocities"
    /\ Len(lastOp.args[1]) > 3 * maxParticles
    /\ count.n > 0
    /\ count.n < maxParticles * count.d

\* C11: one collision pass treats each axis on its own: a position component
\* above the domain maximum becomes the maximum and its velocity component
\* becomes -|v| * 0.3; one below the domain minimum becomes the minimum and
\* its velocity component becomes |v| * 0.3; any other component keeps its
\* position and its velocity.  (0.3 * |v| is stored to the unit of the
\* velocity array.)
C11_CollisionPerAxis ==
    lastOp.op = "handleCollisions" =>
        \A f \in 1..Len(positions) :
            LET x == lastOp.args[1][f]
                v == lastOp.args[2][f]
                a == IF v < 0 THEN -v ELSE v
            IN  IF x > domainMax[Axis(f)]
                THEN /\ positions[f] = domainMax[Axis(f)]
                     /\ velocities[f] <= 0
                     /\ 10 * (-velocities[f]) <= 3 * a
                     /\ 3 * a < 10 * (-velocities[f]) + 10
                ELSE IF x < domainMin[Axis(f)]
                THEN /\ positions[f] = domainMin[Axis(f)]
                     /\ velocities[f] >= 0
                     /\ 10 * velocities[f] <= 3 * a
                     /\ 3 * a < 10 * velocities[f] + 10
                ELSE /\ positions[f] = x
                     /\ velocities[f] = v

\* a pass over one particle that was above the maximum on x moving outward,
\* inside on y, and below the minimum on z
C11_Witness ==
    /\ lastOp.op = "handleCollisions"
    /\ \E p \in 0..(NumParticles - 1) :
          /\ lastOp.args[1][3 * p + 1] > domainMax[1]
          /\ lastOp.args[2][3 * p + 1] > 0
          /\ velocities[3 * p + 1] < 0
          /\ lastOp.args[1][3 * p + 2] > domainMin[2]
          /\ lastOp.args[1][3 * p + 2] < domainMax[2]
          /\ velocities[3 * p + 2] # 0
          /\ lastOp.args[1][3 * p + 3] < domainMin[3]
          /\ velocities[3 * p + 3] > 0

\* the particles of the buffers, numbered from 0
ParticleIds == 0..((Len(positions) \div 3) - 1)

ParticlePos(p) ==
    <<positions[3 * p + 1], positions[3 * p + 2], positions[3 * p + 3]>>

\* the tetrahedron the location query gives for particle p on the node
\* positions geo
LocatedIn(geo, p) ==
    findContainingTetrahedron(geo, tetrahedra, tetCount,
                              ParticlePos(p)[1], ParticlePos(p)[2],
                              ParticlePos(p)[3])

\* the barycentric weight of particle p at node n on the node positions geo
\* (zero when p is not located or n is no vertex of its tetrahedron)
NodeWeight(geo, p, n) ==
    LET t == LocatedIn(geo, p)
    IN  IF t < 0 THEN RInt(0)
        ELSE LET tet == getTetrahedron(tetrahedra, t)
                 bary == computeBarycentricCoordinates(
                             geo, tetrahedra, t, ParticlePos(p)[1],
                             ParticlePos(p)[2], ParticlePos(p)[3])
                 part(i) == IF tet[i] = n THEN bary[i] ELSE RInt(0)
             IN  RAdd(RAdd(part(1), part(2)), RAdd(part(3), part(4)))

RECURSIVE WeightSum(_, _, _)
\* sum over the particles 0..p of their weight at node n
WeightSum(geo, n, p) ==
    IF p < 0 THEN RInt(0)
    ELSE RAdd(WeightSum(geo, n, p - 1), NodeWeight(geo, p, n))

RECURSIVE MomentSum(_, _, _, _, _)
\* sum over the particles 0..p of weight at node n * component c of the
\* velocity in vel
MomentSum(geo, vel, n, c, p) ==
    IF p < 0 THEN RInt(0)
    ELSE LET w == NodeWeight(geo, p, n)
         IN  RAdd(MomentSum(geo, vel, n, c, p - 1),
                  Rat(w.n * vel[3 * p + c], w.d))

\* C12: after the P2G transfer each node's velocity is the sum, over the
\* particles located in a tetrahedron incident to the node, of barycentric
\* weight * particle velocity, divided by the sum of those weights; a node
\* whose accumulated weight is zero has zero velocity.  Particles are located
\* on the mesh as it stands when the transfer is called; the quotient is
\* compared up to the rounding of the accumulation (one unit per particle)
\* and of the division (one unit).
C12_WeightedAverage ==
    lastOp.op = "particlesToMesh" =>
        \A n \in 0..(nodeCount - 1) : \A c \in 1..3 :
            LET last == (Len(positions) \div 3) - 1
                wt == WeightSum(lastOp.args[1], n, last)
                mom == MomentSum(lastOp.args[1], velocities, n, c, last)
                nv == nodeVelocities[3 * n + c]
                diff == nv * wt.n * mom.d - mom.n * wt.d
            IN  IF wt.n = 0 THEN nv = 0
                ELSE (IF diff < 0 THEN -diff ELSE diff)
                        <= (wt.n + (last + 1) * wt.d) * mom.d

RECURSIVE KeepLocated(_, _, _)
\* the entries of the flat array arr that belong to the particles p, p+1, ..
\* whose location query on the node positions geo succeeds
KeepLocated(geo, arr, p) ==
    IF 3 * p >= Len(positions) THEN <<>>
    ELSE (IF LocatedIn(geo, p) >= 0
          THEN <<arr[3 * p + 1], arr[3 * p + 2], arr[3 * p + 3]>>
          ELSE <<>>) \o KeepLocated(geo, arr, p + 1)

\* C14: a particle for which findContainingTetrahedron returns not-found is
\* skipped by both transfers.  P2G: the node velocities are the ones the
\* transfer gives when the particles that the mesh does not locate at the
\* time of the call are left out altogether (they add nothing to any node's
\* velocity or weight).  G2P: the velocity of a particle that is not located
\* is exactly what it was before the call.
C14_SkipNotFound ==
    /\ lastOp.op = "particlesToMesh" =>
          nodeVelocities =
              particlesToMesh(lastOp.args[1], tetrahedra, tetCount,
                              KeepLocated(lastOp.args[1], positions, 0),
                              KeepLocated(lastOp.args[1], velocities, 0)
                             ).nodeVelocities
    /\ lastOp.op = "meshToParticles" =>
          \A p \in ParticleIds :
              LocatedIn(nodes, p) < 0 =>
                  \A c \in 1..3 :
                      velocities[3 * p + c] = lastOp.args[1][3 * p + c]

\* the velocity of particle p in the flat array vel
ParticleVel(vel, p) == <<vel[3 * p + 1], vel[3 * p + 2], vel[3 * p + 3]>>

\* the nodes of the tetrahedron that holds particle p on the node positions
\* geo (empty when p is not located)
NodesAround(geo, p) ==
    LET t == LocatedIn(geo, p)
    IN  IF t < 0 THEN {}
        ELSE { getTetrahedron(tetrahedra, t)[i] : i \in 1..4 }

\* C15: interpolation round trip.  When particlesToMesh is followed at once
\* by meshToParticles, (a) a located particle whose tetrahedron shares no
\* node with the tetrahedron of another located particle gets its velocity
\* back, each component within 50 velocity units (0.025 m/s), and (b) two
\* particles located in different grid cells with different velocities do
\* not end with a common velocity.  Particles are located on the mesh as it
\* stands when particlesToMesh is called.
C15_RoundTrip ==
    [][ (lastOp.op = "particlesToMesh" /\ lastOp'.op = "meshToParticles") =>
          LET geo == lastOp.args[1]
              located == { p \in ParticleIds : LocatedIn(geo, p) >= 0 }
          IN  /\ \A p \in located :
                    (\A q \in located \ {p} :
                        NodesAround(geo, p) \cap NodesAround(geo, q) = {}) =>
                    \A c \in 1..3 :
                        /\ velocities'[3 * p + c] - velocities[3 * p + c] <= 50
                        /\ velocities[3 * p + c] - velocities'[3 * p + c] <= 50
              /\ \A p, q \in located :
                    (/\ CellOf(LocatedIn(geo, p)) # CellOf(LocatedIn(geo, q))
                     /\ ParticleVel(velocities, p) # ParticleVel(velocities, q))
                    => ParticleVel(velocities', p) # ParticleVel(velocities', q)
      ]_vars

\* the place of a call in the order the claim gives: 1 P2G transfer,
\* 2 gravity, 3 pressure projection (the solver call and the simulator's own
\* applyPressureGradient), 4 G2P transfer, 5 advection, 6 boundary collision,
\* 7 the simulation-time increment that ends the step (also the value
\* between steps)
Stage(op) ==
    IF op = "particlesToMesh" THEN 1
    ELSE IF op = "applyBodyForces" THEN 2
    ELSE IF op \in {"solve", "applyPressureGradient"} THEN 3
    ELSE IF op = "meshToParticles" THEN 4
    ELSE IF op = "advectParticles" THEN 5
    ELSE IF op = "handleCollisions" THEN 6
    ELSE 7

\* C16: each step() runs its phases once and in the order P2G transfer,
\* gravity, pressure projection, G2P transfer, advection, boundary collision,
\* simulation-time increment: every call of a step is followed by the call of
\* the next phase (the solver call by applyPressureGradient, within the
\* pressure projection), a new step starts only after the time increment of
\* the one before, and the simulation time changes at the increment only.
C16_PhaseOrder ==
    [][ /\ \/ Stage(lastOp'.op) = (Stage(lastOp.op) % 7) + 1
           \/ lastOp.op = "solve" /\ lastOp'.op = "applyPressureGradient"
        /\ lastOp.op = "solve" => lastOp'.op = "applyPressureGradient"
        /\ simulationTime' = IF lastOp'.op = "step"
                             THEN simulationTime + timeStep
                             ELSE simulationTime
      ]_vars

\* the second step of a run has run to its end
C16_Witness ==
    /\ lastOp.op = "step"
    /\ simulationTime = 2 * timeStep
    /\ \E f \in 1..Len(velocities) : velocities[f] < 0

C18_ViscosityNotApplied ==
    [][ /\ lastOp'.op = "setViscosity" =>
              /\ positions' = positions
              /\ velocities' = velocities
              /\ count' = count
              /\ nodes' = nodes
              /\ nodeVelocities' = nodeVelocities
              /\ simulationTime' = simulationTime
              /\ timeStep' = timeStep
              /\ gravity' = gravity
        /\ lastOp'.op = "step" =>
              \A v \in Viscosities \ {viscosity} :
                  \E r \in { stepResult([Sim EXCEPT !.viscosity = v]) } :
                      /\ positions' = r.particles.positions
                      /\ velocities' = r.particles.velocities
                      /\ nodeVelocities' = r.nodeVelocities
                      /\ simulationTime' = r.simulationTime
      ]_vars

\* a step taken with a viscosity other than the constructor's, which moved
\* the fluid
C18_Witness ==
    /\ lastOp.op = "step"
    /\ viscosity # DefaultViscosity
    /\ \E f \in 1..Len(velocities) : velocities[f] # 0
    /\ \E f \in 1..Len(nodeVelocities) : nodeVelocities[f] # 0

\* C19: mesh construction with a resolution of zero on any axis is rejected
\* outright: createRegularMesh signals an error and leaves no mesh, instead
\* of producing a mesh with zero tetrahedra.
C19_ZeroResolutionRejected ==
    (/\ lastOp.op = "createRegularMesh"
     /\ \E a \in 1..3 : lastOp.args[a] = 0)
        => /\ lastOp.ret = TRUE
           /\ nodes = <<>>
           /\ tetrahedra = <<>>

C21_Termination ==
    /\ [](solver.iterations <= MaxIterations)
    /\ [][ lastOp'.op = "iterate" =>
             /\ solver'.iterations = solver.iterations + 1
             /\ solver.iterations = 0 \/ solver.maxDiff >= Tolerance ]_vars
    /\ [][ lastOp'.op = "solve" =>
             /\ solver.iterations >= 1
             /\ solver.maxDiff < Tolerance
                  \/ solver.iterations = MaxIterations ]_vars
    /\ (solver.active ~> ~ solver.active)

\* a solve that left the loop by the tolerance test after several passes
C21_Witness ==
    /\ lastOp.op = "solve"
    /\ solver.iterations > 1
    /\ solver.iterations < MaxIterations
    /\ solver.maxDiff < Tolerance

\* the largest magnitude held by the pressure arrays of the solve
MaxPressure ==
    The({ SeqMax(a, 1, Len(a)) :
          a \in {Arr([i \in 1..Len(solver.pressure) |->
                        Max2(Abs(solver.pressure[i]),
                             Abs(solver.pressureOld[i]))])} })

\* C22 (as stated): the largest per-node pressure change measured in a pass
\* is never larger than the one measured in the pass before it.
C22_NonIncreasingOriginal ==
    [][ (lastOp'.op = "iterate" /\ solver.iterations >= 1) =>
            solver'.maxDiff <= solver.maxDiff ]_vars

\* C22: the largest per-node pressure change measured in a pass exceeds the
\* one measured in the pass before it by no more than the rounding of two
\* stored pressure values (one spacing of the Float32 values at the largest
\* pressure magnitude, plus one unit).
C22_NonIncreasing ==
    [][ (lastOp'.op = "iterate" /\ solver.iterations >= 1) =>
            solver'.maxDiff <= solver.maxDiff + Ulp(MaxPressure') + 1 ]_vars

\* a second or later pass on pressures beyond the exactly stored range
C22_Witness ==
    /\ lastOp.op = "iterate"
    /\ solver.iterations >= 2
    /\ solver.maxDiff > 0
    /\ MaxPressure >= F32Exact

\* the sum of a[n + 1] over the node indices n of the set S
RECURSIVE SetSum(_, _)
SetSum(a, S) ==
    IF S = {} THEN 0
    ELSE The({ a[n + 1] + SetSum(a, S \ {n}) : n \in {CHOOSE m \in S : TRUE} })

\* C23: every pass is a Jacobi sweep: the first pass starts from all-zero
\* pressure, and after a pass the pressure of every node i with at least
\* one neighbour is (sum over i's neighbours of the pressure before the
\* pass - rhs[i]) / (number of neighbours), stored as a Float32; a node
\* without neighbours keeps its pressure; pressureOld holds the pressures
\* before the pass.
C23_JacobiSweep ==
    /\ [][ lastOp'.op = "computeDivergence" =>
             \A i \in 1..nodeCount : solver'.pressure[i] = 0 ]_vars
    /\ [][ lastOp'.op = "iterate" =>
             /\ solver'.pressureOld = solver.pressure
             /\ solver'.rhs = solver.rhs
             /\ \A i \in 1..nodeCount :
                  \E nb \in {getNeighbors(tetrahedra, tetCount, i - 1)} :
                    solver'.pressure[i] =
                        IF nb = {} THEN solver.pressure[i]
                        ELSE Float32(Fix(SetSum(solver.pressure, nb)
                                           - solver.rhs[i],
                                         Cardinality(nb))) ]_vars

\* a pass over pressures that differ from node to node and that changed
\* every node
C23_Witness ==
    /\ lastOp.op = "iterate"
    /\ solver.iterations >= 2
    /\ \E i, j \in 1..nodeCount : solver.pressureOld[i] # solver.pressureOld[j]
    /\ \A i \in 1..nodeCount : solver.pressure[i] # solver.pressureOld[i]

\* C24: when the divergence is assembled, the spacing that divides the
\* velocity difference is at least the floor of 0.1 m, for every tetrahedron
\* and every axis.
C24_SpacingFloor ==
    lastOp.op = "computeDivergence" =>
        \A t \in TetIds : \A c \in 1..3 :
            Spacing([i \in 1..4 |-> TetVertex(t, i - 1)])[c] >= MinSpacing

\* buffer slot f (1-based) belongs to a particle with index < count
Live(f) == ((f - 1) \div 3) * count.d < count.n

\* the slots of the buffer a that belong to live particles (they form a
\* prefix of the buffer)
LivePrefix(a) ==
    SubSeq(a, 1, Cardinality({ f \in 1..Len(a) : Live(f) }))

\* C25: only the particles with index < count take part in a step: the
\* node velocities produced by the particle-to-mesh transfer are the ones
\* produced from the live particles alone, and a step leaves every buffer
\* slot of a particle with index >= count as it was.
C25_LiveParticlesOnly ==
    [][ lastOp'.op = "step" =>
          /\ particlesToMesh(nodes, tetrahedra, tetCount,
                             positions, velocities).nodeVelocities
               = particlesToMesh(nodes, tetrahedra, tetCount,
                                 LivePrefix(positions),
                                 LivePrefix(velocities)).nodeVelocities
          /\ \A f \in 1..Len(positions) :
                ~ Live(f) => /\ positions'[f] = positions[f]
                             /\ velocities'[f] = velocities[f] ]_vars

\* C26: step() does not change the particle count.
C26_StepKeepsCount ==
    [][ lastOp'.op = "step" => count' = count ]_vars

\* C27: at most one animate callback is pending at any time, and
\* simulator.step() is called at most once in a frame.  Violated: start()
\* after pause() within one frame, or reset() while running, registers a
\* second callback while the first is still pending.
C27_OneStepPerFrame ==
    /\ app.scheduled + app.running <= 1
    /\ app.stepsInFrame <= 1

\* C28: a transition in which simulator.step() ran ends with isRunning
\* true, and it is either a start() (from the Start button or from reset())
\* or a callback that found isRunning true; a callback that finds isRunning
\* false leaves the simulator as it was.
C28_StepOnlyWhileRunning ==
    [][ /\ simulationTime' = simulationTime + timeStep
            => /\ app'.isRunning
               /\ \/ app.isRunning /\ lastOp'.op = "animate"
                  \/ ~ app.isRunning /\ lastOp'.op \in {"start", "resetResume"}
        /\ lastOp'.op = "animate" /\ ~ app.isRunning
            => /\ simulationTime' = simulationTime
               /\ positions' = positions
               /\ velocities' = velocities
               /\ nodeVelocities' = nodeVelocities
               /\ app'.scheduled = app.scheduled ]_vars

\* a callback that was pending when pause() ran has run without a step,
\* after at least one step had been made
C28_Witness ==
    /\ lastOp.op = "animate"
    /\ lastOp.ret = 0
    /\ ~ app.isRunning
    /\ simulationTime > 0

\* C29: each step() adds exactly the time step in effect to the simulation
\* time, reset() sets it to 0, and setTimeStep, setGravity and setViscosity
\* leave it unchanged, so getSimulationTime() is the sum of the time steps
\* of the steps completed since the last reset() or initialize().
C29_SimulationTime ==
    [][ simulationTime' =
            IF lastOp'.op = "step" THEN simulationTime + timeStep
            ELSE IF lastOp'.op = "reset" THEN 0
            ELSE simulationTime ]_vars

\* a step has completed after an earlier step that was taken with a
\* different time step
C29_Witness ==
    /\ lastOp.op = "step"
    /\ simulationTime > timeStep
    /\ simulationTime % timeStep # 0

\* the point p lies between domainMin and domainMax on all three axes
InDomain(p) == \A a \in 1..3 : domainMin[a] <= p[a] /\ p[a] <= domainMax[a]

\* the point p lies in the grid cell that tetrahedron t was pushed for: on
\* every axis between two nodes of that cell
InCellOf(t, p) ==
    \A a \in 1..3 :
        \E n \in CellNodes(CellOf(t)), m \in CellNodes(CellOf(t)) :
            /\ NodePos(nodes, n)[a] <= p[a]
            /\ p[a] <= NodePos(nodes, m)[a]

====
